---- MODULE Spec2Model ----
(***************************************************************************)
(* Smart Inventory Management System: the stock classifier and the alert   *)
(* generator of the browser client, the Express inventory API with its     *)
(* authentication middleware, and the client's permission gate.            *)
(*                                                                         *)
(* JavaScript values are modelled as follows.  A field that is undefined   *)
(* or falsy and is only ever read through `x || default` is modelled by    *)
(* the falsy value of its type: "" for a string, 0 for a number.           *)
(***************************************************************************)
EXTENDS Integers, Sequences, FiniteSets, TLC

\* ------------------------------------------------------------------------
\* Bounds of the model
\* ------------------------------------------------------------------------
MaxStock == 8        \* largest stock value drawn as an input
MaxThreshold == 3    \* largest alertThreshold drawn as an input
MaxItems == 3        \* longest item list handed to the alert generator
MaxAlertStock == 3   \* largest stock in the alert generator's item lists
MaxDocs == 1         \* most documents the inventory collection holds
MaxQueue == 2        \* most snapshots the live subscription holds undelivered
MaxEstimateStock == 21 \* largest stock the estimates are computed for
MaxDisplayItems == 8  \* longest item list the alert panel is drawn for
MaxListItems == 3     \* longest item list sorted for listing
MaxPosCalls == 2      \* most POS requests the backend serves at once
MaxPosClock == 4      \* last time the POS controller stamps a write with
MaxNameLen == 2       \* most characters of an exported product name
MaxCsvItems == 2      \* most items of an exported inventory
MaxFieldStock == 5    \* largest stock of the items classified with and without the field
MaxUsers == 2         \* most accounts registered
MaxSubscriptions == 2 \* most listeners js/app.js registers
MaxLiveStock == 2     \* largest stock another client writes
MaxCalls == 1         \* most sendToGroq calls waiting for their answer at once
StockCap == 3        \* stored stock stays within -StockCap..StockCap

\* ------------------------------------------------------------------------
\* config/constants.js
\* ------------------------------------------------------------------------
URGENT == "urgent"
NORMAL == "normal"
INFO == "info"
GOOD == "good"
OPTIMAL == "optimal"

STOCK_STATUS == {URGENT, NORMAL, INFO, GOOD, OPTIMAL}

PRIORITY_LEVELS == {"high", "medium", "low"}

\* the categories that have an entry in DEFAULT_PRIORITIES
CATEGORIES == {"Spirits", "Wines", "Beers", "Soft Drinks", "Syrups"}

DEFAULT_PRIORITIES ==
    [c \in CATEGORIES |->
        CASE c = "Spirits"     -> [priority |-> "high",   threshold |-> 2]
          [] c = "Wines"       -> [priority |-> "medium", threshold |-> 3]
          [] c = "Beers"       -> [priority |-> "medium", threshold |-> 6]
          [] c = "Soft Drinks" -> [priority |-> "low",    threshold |-> 12]
          [] c = "Syrups"      -> [priority |-> "medium", threshold |-> 2]]

MAX_VISIBLE_ALERTS == 6

\* MAX_CONVERSATION_HISTORY of the AI assistant configuration
MAX_CONVERSATION_HISTORY == 10

\* ------------------------------------------------------------------------
\* modules/inventory.js: priority resolution and the stock classifier
\* ------------------------------------------------------------------------

\* product[field], with the falsy value standing for undefined when the
\* product has no such field
Field(product, field, falsy) ==
    IF field \in DOMAIN product THEN product[field] ELSE falsy

\* DEFAULT_PRIORITIES[product.category] || { priority: 'medium', threshold: 3 }
CategoryDefault(category) ==
    IF category \in CATEGORIES
    THEN DEFAULT_PRIORITIES[category]
    ELSE [priority |-> "medium", threshold |-> 3]

\* product.priority || categoryDefault.priority,
\* product.alertThreshold || categoryDefault.threshold
getProductPriority(product) ==
    LET categoryDefault == CategoryDefault(Field(product, "category", ""))
    IN  [priority  |-> IF Field(product, "priority", "") # ""
                       THEN product.priority
                       ELSE categoryDefault.priority,
         threshold |-> IF Field(product, "alertThreshold", 0) # 0
                       THEN product.alertThreshold
                       ELSE categoryDefault.threshold]

MutStockStatusStrict(stock, threshold, priority) ==
    IF stock < threshold
    THEN CASE priority = "high"   -> [status |-> URGENT, message |-> "URGENT: Needs immediate restock!"]
           [] priority = "medium" -> [status |-> NORMAL, message |-> "Normal: Restock soon"]
           [] priority = "low"    -> [status |-> INFO,   message |-> "Info: Low stock noted"]
           [] OTHER               -> [status |-> OPTIMAL, message |-> "Optimal: Well stocked"]
    ELSE IF stock <= threshold * 2
         THEN [status |-> GOOD, message |-> "Good: Stock adequate"]
         ELSE [status |-> OPTIMAL, message |-> "Optimal: Well stocked"]

\* a switch without a default: a priority that matches no case leaves the
\* if statement and reaches the final return
StockStatus(stock, threshold, priority) ==
    IF stock <= threshold
    THEN CASE priority = "high"   -> [status |-> URGENT, message |-> "URGENT: Needs immediate restock!"]
           [] priority = "medium" -> [status |-> NORMAL, message |-> "Normal: Restock soon"]
           [] priority = "low"    -> [status |-> INFO,   message |-> "Info: Low stock noted"]
           [] OTHER               -> [status |-> OPTIMAL, message |-> "Optimal: Well stocked"]
    ELSE IF stock <= threshold * 2
         THEN [status |-> GOOD, message |-> "Good: Stock adequate"]
         ELSE [status |-> OPTIMAL, message |-> "Optimal: Well stocked"]

\* product.stock of a product without the field is undefined, and
\* undefined <= n is false for every n: neither branch is taken
calculateStockStatus(product) ==
    LET config == getProductPriority(product)
    IN  IF "stock" \in DOMAIN product
        THEN StockStatus(product.stock, config.threshold, config.priority)
        ELSE [status |-> OPTIMAL, message |-> "Optimal: Well stocked"]

\* calculateStockStatus of the backend controllers: item.stock || 0
backendCalculateStockStatus(item) ==
    LET config == getProductPriority(item)
    IN  StockStatus(Field(item, "stock", 0), config.threshold, config.priority)

\* ------------------------------------------------------------------------
\* modules/alerts.js: the alert generator
\* ------------------------------------------------------------------------

\* Math.max(1, Math.ceil(product.stock / 2))
estimateDaysUntilEmpty(product) ==
    LET averageDailyConsumption == 2
        days == (product.stock + averageDailyConsumption - 1) \div averageDailyConsumption
    IN  IF days > 1 THEN days ELSE 1

\* generateAlerts of the single-file js/app.js: Math.ceil(product.stock / 2)
legacyDaysUntilEmpty(product) == (product.stock + 1) \div 2

MutSuggestedQuantityNoMinimum(product, config) ==
    config.threshold * 3 - product.stock

\* Math.max(minimumOrder, config.threshold * 3 - product.stock)
calculateSuggestedQuantity(product, config) ==
    LET targetStock == config.threshold * 3
        minimumOrder == 10
        neededQuantity == targetStock - product.stock
    IN  IF neededQuantity > minimumOrder THEN neededQuantity ELSE minimumOrder

\* the record pushed for a product that needs attention
AlertOf(product) ==
    LET stockInfo == calculateStockStatus(product)
        config == getProductPriority(product)
    IN  [product |-> product,
         status |-> stockInfo.status,
         message |-> stockInfo.message,
         priority |-> config.priority,
         threshold |-> config.threshold,
         daysUntilEmpty |-> estimateDaysUntilEmpty(product),
         suggestedQuantity |-> calculateSuggestedQuantity(product, config)]

MutNeedsAttentionNoInfo(status) == status \in {URGENT, NORMAL}

\* [URGENT, NORMAL, INFO].includes(stockInfo.status)
NeedsAttention(status) == status \in {URGENT, NORMAL, INFO}

\* inventoryItems.forEach(product => { if (...) alertState.alerts.push({...}) })
RECURSIVE CollectAlerts(_)
CollectAlerts(inventoryItems) ==
    IF inventoryItems = <<>>
    THEN <<>>
    ELSE LET product == Head(inventoryItems)
             rest == CollectAlerts(Tail(inventoryItems))
         IN  IF NeedsAttention(calculateStockStatus(product).status)
             THEN <<AlertOf(product)>> \o rest
             ELSE rest

\* priorityOrder of the sort comparator
priorityOrder(status) ==
    CASE status = URGENT -> 3
      [] status = NORMAL -> 2
      [] status = INFO   -> 1

MutAlertCompareAscending(a, b) == priorityOrder(a.status) - priorityOrder(b.status)

\* (a, b) => priorityOrder[b.status] - priorityOrder[a.status]
AlertCompare(a, b) == priorityOrder(b.status) - priorityOrder(a.status)

\* Array.prototype.sort is stable: an element is placed after every element
\* that does not compare greater than it
RECURSIVE InsertAlert(_, _)
InsertAlert(sorted, a) ==
    IF sorted = <<>>
    THEN <<a>>
    ELSE IF AlertCompare(Head(sorted), a) <= 0
         THEN <<Head(sorted)>> \o InsertAlert(Tail(sorted), a)
         ELSE <<a>> \o sorted

RECURSIVE SortAlerts(_)
SortAlerts(list) ==
    IF list = <<>>
    THEN <<>>
    ELSE InsertAlert(SortAlerts(SubSeq(list, 1, Len(list) - 1)), list[Len(list)])

\* the value generateAlerts leaves in alertState.alerts
generateAlertsOf(inventoryItems) == SortAlerts(CollectAlerts(inventoryItems))

\* ------------------------------------------------------------------------
\* backend middleware/auth.js
\* ------------------------------------------------------------------------
USER_ROLES == {"admin", "manager", "staff"}

\* req.user before verifyToken has set it
NoUser == [role |-> ""]

NoToken == [kind |-> "", role |-> ""]

\* jwt.verify(token, secret): the decoded payload of a well-formed, rightly
\* signed, unexpired token; TokenExpiredError for an expired one and
\* JsonWebTokenError for a malformed or wrongly signed one
jwtVerify(token) ==
    CASE token.kind = "valid"   -> [ok |-> TRUE, name |-> "", decoded |-> [role |-> token.role]]
      [] token.kind = "expired" -> [ok |-> FALSE, name |-> "TokenExpiredError", decoded |-> NoUser]
      [] OTHER                  -> [ok |-> FALSE, name |-> "JsonWebTokenError", decoded |-> NoUser]

MutVerifyTokenDecodeOnly(authorization) ==
    IF authorization.kind # "bearer"
    THEN [status |-> 401, error |-> "Unauthorized access", nextCalls |-> 0, user |-> NoUser]
    ELSE IF authorization.token.kind \in {"valid", "expired"}
         THEN [status |-> 0, error |-> "", nextCalls |-> 1,
               user |-> [role |-> authorization.token.role]]
         ELSE [status |-> 401, error |-> "Unauthorized access", nextCalls |-> 0, user |-> NoUser]

\* status 0: no response was sent and the request went on to next()
verifyToken(authorization) ==
    IF authorization.kind # "bearer"
    THEN [status |-> 401, error |-> "Unauthorized access", nextCalls |-> 0, user |-> NoUser]
    ELSE LET verified == jwtVerify(authorization.token)
         IN  IF verified.ok
             THEN [status |-> 0, error |-> "", nextCalls |-> 1, user |-> verified.decoded]
             ELSE IF verified.name = "TokenExpiredError"
                  THEN [status |-> 401, error |-> "Token expired", nextCalls |-> 0, user |-> NoUser]
                  ELSE [status |-> 401, error |-> "Unauthorized access", nextCalls |-> 0, user |-> NoUser]

MutIsManagerOrAdminAnyRole(user) ==
    IF user.role \notin USER_ROLES
    THEN [status |-> 403, error |-> "Manager or Admin access required", nextCalls |-> 0]
    ELSE [status |-> 0, error |-> "", nextCalls |-> 1]

isManagerOrAdmin(user) ==
    IF user.role # "admin" /\ user.role # "manager"
    THEN [status |-> 403, error |-> "Manager or Admin access required", nextCalls |-> 0]
    ELSE [status |-> 0, error |-> "", nextCalls |-> 1]

\* the canModifyStock middleware: any authenticated user
canModifyStockGate(user) ==
    IF user = NoUser
    THEN [status |-> 401, error |-> "Unauthorized access", nextCalls |-> 0]
    ELSE [status |-> 0, error |-> "", nextCalls |-> 1]

\* ------------------------------------------------------------------------
\* backend routes/inventory.routes.js
\* ------------------------------------------------------------------------
MutatingRoutes == {"POST", "PUT", "PATCH", "DELETE"}

\* the middleware between verifyToken and the handler of a route
RouteGate(route, user) ==
    IF route = "PATCH" THEN canModifyStockGate(user) ELSE isManagerOrAdmin(user)

\* ------------------------------------------------------------------------
\* backend controllers/inventory.controller.js
\* ------------------------------------------------------------------------

\* what a handler has read of the document: nothing yet
NoDoc == [exists |-> FALSE, stock |-> 0]

\* a handler that is not waiting for a write
NoWrite == [kind |-> "none"]

\* doc.exists and doc.data().stock || 0 of docRef.get()
ReadDoc(inv, id) ==
    IF id \in DOMAIN inv
    THEN [exists |-> TRUE, stock |-> inv[id].stock]
    ELSE NoDoc

\* the id Firestore gives a new document
NewDocId(inv) == CHOOSE id \in 1..(Cardinality(DOMAIN inv) + 1) : id \notin DOMAIN inv

\* newItem of createItem
NewItem(body) ==
    LET defaults == CategoryDefault(body.category)
    IN  [name |-> body.name,
         category |-> body.category,
         stock |-> body.stock,
         priority |-> IF body.priority # "" THEN body.priority ELSE defaults.priority,
         alertThreshold |-> IF body.alertThreshold # 0
                            THEN body.alertThreshold ELSE defaults.threshold]

\* createItem up to its response: the document is added with the id chosen
\* by the store
createItem(inv, db, body) ==
    IF body.name = "" \/ body.category = ""
    THEN [status |-> 400, error |-> "Name and category are required",
          doc |-> NoDoc, write |-> NoWrite, inv |-> inv]
    ELSE IF ~db
         THEN [status |-> 500, error |-> "Database not available",
               doc |-> NoDoc, write |-> NoWrite, inv |-> inv]
         ELSE [status |-> 201, error |-> "", doc |-> NoDoc, write |-> NoWrite,
               inv |-> [id \in DOMAIN inv \cup {NewDocId(inv)} |->
                           IF id \in DOMAIN inv THEN inv[id] ELSE NewItem(body)]]

\* updateItem up to docRef.update(updates); status 0: the handler waits for
\* the write
updateItem(inv, db, id, body) ==
    IF ~db
    THEN [status |-> 500, error |-> "Database not available",
          doc |-> NoDoc, write |-> NoWrite, inv |-> inv]
    ELSE IF id \notin DOMAIN inv
         THEN [status |-> 404, error |-> "Item not found",
               doc |-> NoDoc, write |-> NoWrite, inv |-> inv]
         ELSE [status |-> 0, error |-> "", doc |-> ReadDoc(inv, id),
               write |-> [kind |-> "update", fields |-> body], inv |-> inv]

MutStockDeltaUnchecked(currentStock, quantity, action) ==
    IF action = "add"
    THEN [status |-> 0, error |-> "", newStock |-> currentStock + quantity]
    ELSE IF action = "subtract"
         THEN [status |-> 0, error |-> "", newStock |-> currentStock - quantity]
         ELSE [status |-> 400, error |-> "Action must be add or subtract", newStock |-> 0]

\* the new stock updateStock computes; parseInt of an integer is that integer
StockDelta(currentStock, quantity, action) ==
    IF action = "add"
    THEN [status |-> 0, error |-> "", newStock |-> currentStock + quantity]
    ELSE IF action = "subtract"
         THEN IF currentStock - quantity < 0
              THEN [status |-> 400, error |-> "Cannot have negative stock", newStock |-> 0]
              ELSE [status |-> 0, error |-> "", newStock |-> currentStock - quantity]
         ELSE [status |-> 400, error |-> "Action must be add or subtract", newStock |-> 0]

\* updateStock up to docRef.update({stock: newStock})
updateStock(inv, db, id, body) ==
    IF ~db
    THEN [status |-> 500, error |-> "Database not available",
          doc |-> NoDoc, write |-> NoWrite, inv |-> inv]
    ELSE IF ~body.hasQuantity \/ body.action = ""
         THEN [status |-> 400, error |-> "Quantity and action are required",
               doc |-> NoDoc, write |-> NoWrite, inv |-> inv]
         ELSE IF id \notin DOMAIN inv
              THEN [status |-> 404, error |-> "Item not found",
                    doc |-> NoDoc, write |-> NoWrite, inv |-> inv]
              ELSE LET doc == ReadDoc(inv, id)
                       delta == StockDelta(doc.stock, body.quantity, body.action)
                   IN  IF delta.status # 0
                       THEN [status |-> delta.status, error |-> delta.error,
                             doc |-> doc, write |-> NoWrite, inv |-> inv]
                       ELSE [status |-> 0, error |-> "", doc |-> doc,
                             write |-> [kind |-> "update",
                                        fields |-> [stock |-> delta.newStock]],
                             inv |-> inv]

\* deleteItem up to docRef.delete()
deleteItem(inv, db, id) ==
    IF ~db
    THEN [status |-> 500, error |-> "Database not available",
          doc |-> NoDoc, write |-> NoWrite, inv |-> inv]
    ELSE IF id \notin DOMAIN inv
         THEN [status |-> 404, error |-> "Item not found",
               doc |-> NoDoc, write |-> NoWrite, inv |-> inv]
         ELSE [status |-> 0, error |-> "", doc |-> ReadDoc(inv, id),
               write |-> [kind |-> "delete"], inv |-> inv]

Handler(route, inv, db, id, body) ==
    CASE route = "POST"   -> createItem(inv, db, body)
      [] route = "PUT"    -> updateItem(inv, db, id, body)
      [] route = "PATCH"  -> updateStock(inv, db, id, body)
      [] route = "DELETE" -> deleteItem(inv, db, id)

\* docRef.update(fields): the named fields are replaced, the others kept
UpdateDoc(inv, id, fields) ==
    [inv EXCEPT ![id] = [f \in DOMAIN inv[id] |->
                            IF f \in DOMAIN fields THEN fields[f] ELSE inv[id][f]]]

\* docRef.delete()
DeleteDoc(inv, id) == [d \in DOMAIN inv \ {id} |-> inv[d]]

\* a request from its arrival to its response or to the write its handler
\* waits for: verifyToken, the gate of the route, the handler
Dispatch(route, authorization, id, body, inv, db) ==
    LET verified == verifyToken(authorization)
        base == [route |-> route, authorization |-> authorization, id |-> id,
                 body |-> body, user |-> verified.user,
                 verifyNext |-> verified.nextCalls]
    IN  IF verified.status # 0
        THEN [req |-> base @@ [pc |-> "done", status |-> verified.status,
                               error |-> verified.error, handlerRan |-> FALSE,
                               doc |-> NoDoc, write |-> NoWrite],
              inv |-> inv]
        ELSE LET gate == RouteGate(route, verified.user)
             IN  IF gate.status # 0
                 THEN [req |-> base @@ [pc |-> "done", status |-> gate.status,
                                        error |-> gate.error, handlerRan |-> FALSE,
                                        doc |-> NoDoc, write |-> NoWrite],
                       inv |-> inv]
                 ELSE LET h == Handler(route, inv, db, id, body)
                      IN  [req |-> base @@ [pc |-> IF h.status = 0 THEN "write" ELSE "done",
                                            status |-> h.status, error |-> h.error,
                                            handlerRan |-> TRUE,
                                            doc |-> h.doc, write |-> h.write],
                           inv |-> h.inv]

\* ------------------------------------------------------------------------
\* client modules/auth.js
\* ------------------------------------------------------------------------

\* USER_ROLES of the client: the role of each known e-mail address
EmailRoles ==
    [email \in {"admin@inventory.com", "manager@inventory.com", "staff@inventory.com"} |->
        CASE email = "admin@inventory.com"   -> "admin"
          [] email = "manager@inventory.com" -> "manager"
          [] email = "staff@inventory.com"   -> "staff"]

\* authState before anyone has signed in; currentUser "" is null
SignedOut == [currentUser |-> "", userRole |-> "staff", isAuthenticated |-> FALSE]

MutOnAuthStateChangedKeepsRole(auth, user) ==
    IF user # ""
    THEN [currentUser |-> user,
          userRole |-> IF user \in DOMAIN EmailRoles THEN EmailRoles[user] ELSE "staff",
          isAuthenticated |-> TRUE]
    ELSE [currentUser |-> "", userRole |-> auth.userRole, isAuthenticated |-> FALSE]

\* the callback initAuth registers with onAuthStateChanged: authState after
\* it ran for user (an e-mail address, or "" for null)
onAuthStateChanged(auth, user) ==
    IF user # ""
    THEN [currentUser |-> user,
          userRole |-> IF user \in DOMAIN EmailRoles THEN EmailRoles[user] ELSE "staff",
          isAuthenticated |-> TRUE]
    ELSE SignedOut

canModifyStock(auth) == auth.currentUser # ""

canManageProducts(auth) == auth.userRole = "admin" \/ auth.userRole = "manager"

canManagePriorities(auth) == auth.userRole = "admin"

\* ------------------------------------------------------------------------
\* client app.js and the write functions of modules/inventory.js and
\* modules/pos-integration.js
\* ------------------------------------------------------------------------
PermissionDenied == "Permission denied"
AdminRequired == "Admin access required"
ManagerRequired == "Manager or Admin access required"
NegativeStock == "Cannot have negative stock!"

\* the outcome of a client operation: the notification it showed, the write
\* it sent to Firestore, whether it ended in an exception
Outcome(notice, write, threw) == [notice |-> notice, write |-> write, threw |-> threw]

\* updateStock of modules/inventory.js; updateDoc of a missing document
\* rejects and is caught
inventoryUpdateStock(inv, itemId, newStock) ==
    IF newStock < 0
    THEN Outcome(NegativeStock, NoWrite, FALSE)
    ELSE IF itemId \notin DOMAIN inv
         THEN Outcome("Error updating stock", NoWrite, FALSE)
         ELSE Outcome("Stock updated",
                      [kind |-> "update", id |-> itemId, fields |-> [stock |-> newStock]],
                      FALSE)

\* user.email of a null user is a TypeError
performStockUpdate(auth, inv, itemId, newStock) ==
    IF auth.currentUser = ""
    THEN Outcome("", NoWrite, TRUE)
    ELSE inventoryUpdateStock(inv, itemId, newStock)

\* window.quickUpdate; promptValue is parseInt of what the user typed, 0
\* for an empty, cancelled or non-numeric entry
quickUpdate(auth, inv, itemId, currentStock, action, promptValue) ==
    IF ~canModifyStock(auth)
    THEN Outcome(PermissionDenied, NoWrite, FALSE)
    ELSE LET quantity == IF promptValue # 0 THEN promptValue ELSE 1
         IN  IF action = "add"
             THEN performStockUpdate(auth, inv, itemId, currentStock + quantity)
             ELSE IF currentStock - quantity < 0
                  THEN Outcome(NegativeStock, NoWrite, FALSE)
                  ELSE performStockUpdate(auth, inv, itemId, currentStock - quantity)

\* getRestockSuggestion: the product of the first alert for productId, else
\* the inventory item with that id, else null
getRestockSuggestion(alertList, itemList, productId) ==
    LET inAlerts == {i \in 1..Len(alertList) : alertList[i].product.id = productId}
        inItems == {i \in 1..Len(itemList) : itemList[i].id = productId}
        first(S) == CHOOSE i \in S : \A j \in S : i <= j
    IN  IF inAlerts # {}
        THEN [found |-> TRUE,
              currentStock |-> alertList[first(inAlerts)].product.stock,
              suggestedQuantity |-> alertList[first(inAlerts)].suggestedQuantity]
        ELSE IF inItems # {}
             THEN [found |-> TRUE,
                   currentStock |-> itemList[first(inItems)].stock,
                   suggestedQuantity |->
                       calculateSuggestedQuantity(itemList[first(inItems)],
                           getProductPriority(itemList[first(inItems)]))]
             ELSE [found |-> FALSE, currentStock |-> 0, suggestedQuantity |-> 0]

\* window.quickRestock
quickRestock(auth, inv, alertList, itemList, productId, promptValue) ==
    LET suggestion == getRestockSuggestion(alertList, itemList, productId)
    IN  IF suggestion.found /\ promptValue > 0
        THEN performStockUpdate(auth, inv, productId, suggestion.currentStock + promptValue)
        ELSE Outcome("", NoWrite, FALSE)

\* updatePriority of modules/inventory.js
updatePriority(inv, itemId, priority, threshold) ==
    IF itemId \notin DOMAIN inv
    THEN Outcome("Error updating priority", NoWrite, FALSE)
    ELSE Outcome("Priority settings updated",
                 [kind |-> "update", id |-> itemId,
                  fields |-> [priority |-> priority, alertThreshold |-> threshold]],
                 FALSE)

\* window.updateProductPriority
updateProductPriority(auth, inv, itemId, priority, threshold) ==
    IF ~canManagePriorities(auth)
    THEN Outcome(AdminRequired, NoWrite, FALSE)
    ELSE IF auth.currentUser = ""
         THEN Outcome("", NoWrite, TRUE)
         ELSE updatePriority(inv, itemId, priority, threshold)

\* the document savePOSConfig of modules/pos-integration.js writes
PosConfigData(config, updatedBy) ==
    [system |-> IF config.system # "" THEN config.system ELSE "toast",
     apiKey |-> config.apiKey,
     restaurantId |-> config.restaurantId,
     syncFrequency |-> IF config.syncFrequency # "" THEN config.syncFrequency ELSE "realtime",
     connected |-> TRUE,
     updatedBy |-> updatedBy]

\* window.savePOSConfig and savePOSConfig of modules/pos-integration.js
savePOSConfig(auth, config) ==
    IF auth.currentUser = ""
    THEN Outcome("", NoWrite, TRUE)
    ELSE IF config.apiKey = "" \/ config.restaurantId = ""
         THEN Outcome("API Key and Restaurant ID are required", NoWrite, FALSE)
         ELSE Outcome("POS configuration saved successfully!",
                      [kind |-> "setPos", data |-> PosConfigData(config, auth.currentUser)],
                      FALSE)

\* ------------------------------------------------------------------------
\* State
\* ------------------------------------------------------------------------
VARIABLES
    product,     \* the item handed to the stock classifier
    stockInfo,   \* the status object the classifier returned for it
    priorityConfig, \* the priority configuration resolved for it
    estimate,    \* the days until empty and the reorder quantity computed for it
    items,       \* inventoryState.items of the client
    alerts,      \* alertState.alerts of the client
    generated,   \* generateAlerts has run on the current items
    inventory,   \* the documents of the Firestore collection 'inventory'
    dbAvailable, \* the backend's Firestore handle db is not null
    reqs,        \* the HTTP requests the Express server is working on
    authState,   \* authState of the client's auth module
    loadPending, \* handleAuthSuccess waits for loadInventoryData
    listening,   \* the client holds a live subscription to the collection
    posConfig,   \* the Firestore document posConfig/main
    posState,    \* posState of the client's POS module
    lastOp,      \* the last operation of the client and how it ended
    httpRequest, \* the last request an AI or unknown endpoint received
    httpResponse,\* the status and JSON body it was answered with
    upstreamCalls, \* the calls of the completion endpoint made for it
    loadResult,  \* the documents getDocs has read for a load not yet resolved
    notifications, \* the snapshots the live subscription has yet to deliver
    display,     \* what the alert panel last read from the alerts module
    conversationHistory, \* conversationHistory of the client's AI module
    aiCall,      \* the sendToGroq call waiting for its answer
    listing,     \* the item list as last sorted for listing or display
    posDoc,      \* the document posConfig/main the backend keeps
    posCalls,    \* the POS requests the backend is serving
    posAnswer,   \* the answer the POS controller gave last
    posTally,    \* how many POS requests of each kind have succeeded
    posClock,    \* the time new Date() reads in the POS controller
    csv,         \* the CSV text exported last
    users,       \* the documents of the Firestore collection 'users'
    tokens,      \* the tokens the auth endpoints have returned to the caller
    authAnswer,  \* the answer the auth controller gave last
    filteredItems, \* the filtered item list the inventory table is drawn from
    filterInputs,  \* the values of the search, category and status inputs
    subscription,  \* the live subscriptions the client holds on the collection
    refreshedBy    \* what rewrote the client's item list last

classifierVars == <<product, stockInfo, priorityConfig, estimate>>
alertVars == <<items, alerts, generated>>
apiVars == <<dbAvailable, reqs>>
sessionVars == <<authState, loadPending, listening>>
posVars == <<posConfig, posState>>
clientVars == <<authState, loadPending, listening, posConfig, posState, lastOp>>
httpVars == <<httpRequest, httpResponse, upstreamCalls>>
syncVars == <<loadResult, notifications>>
displayVars == <<display>>
chatVars == <<conversationHistory, aiCall>>
listVars == <<listing>>
posApiVars == <<posDoc, posCalls, posAnswer, posTally, posClock>>
csvVars == <<csv>>
registerVars == <<users, tokens, authAnswer>>
liveVars == <<filteredItems, filterInputs, subscription, refreshedBy>>
lateVars == <<posApiVars, csvVars, registerVars, liveVars>>
serviceVars == <<httpVars, syncVars, displayVars, chatVars, listVars, lateVars>>
earlyVars == <<classifierVars, alertVars, inventory, apiVars, clientVars, httpVars, syncVars, displayVars, chatVars,
               listVars>>
vars == <<product, stockInfo, priorityConfig, estimate, items, alerts, generated, inventory, dbAvailable, reqs,
          authState, loadPending, listening, posConfig, posState, lastOp, serviceVars>>

\* the classifier has not returned yet
NoStatus == [status |-> "", message |-> ""]

NoProduct == [id |-> 0, name |-> "", category |-> "", stock |-> 0,
              priority |-> "", alertThreshold |-> 0]

\* ------------------------------------------------------------------------
\* The stock classifier applied to one item
\* ------------------------------------------------------------------------
PriorityInputs == {"", "high", "medium", "low", "critical"}

ProductInputs ==
    [id : {1}, name : {"Gin"}, category : {"Spirits", "Soft Drinks", "Other"},
     stock : -1..MaxStock, priority : PriorityInputs,
     alertThreshold : 0..MaxThreshold]

InitIdleAlerts ==
    /\ items = <<>>
    /\ alerts = <<>>
    /\ generated = FALSE

\* getProductPriority has not returned yet
NoConfig == [priority |-> "", threshold |-> 0]

\* the estimates have not been computed yet
NoEstimate == [daysUntilEmpty |-> 0, suggestedQuantity |-> 0]

InitIdleClassifier ==
    /\ product = NoProduct
    /\ stockInfo = NoStatus
    /\ priorityConfig = NoConfig
    /\ estimate = NoEstimate

\* the server's request slots
Slots == {1, 2}

Idle == [pc |-> "idle"]

EmptyInventory == [id \in {} |-> NoProduct]

InitIdleApi ==
    /\ inventory = EmptyInventory
    /\ dbAvailable = TRUE
    /\ reqs = [s \in Slots |-> Idle]

\* no document posConfig/main yet
NoPosConfig == [connected |-> FALSE]

\* posState as the POS module declares it
InitialPosState == [connected |-> FALSE, system |-> "toast", syncFrequency |-> "realtime"]

NoOp == [op |-> "", notice |-> "", wrote |-> FALSE, threw |-> FALSE]

InitIdleClient ==
    /\ authState = SignedOut
    /\ loadPending = FALSE
    /\ listening = FALSE
    /\ posConfig = NoPosConfig
    /\ posState = InitialPosState
    /\ lastOp = NoOp

\* no request has reached the AI endpoints
NoRequest == [endpoint |-> ""]

NoResponse == [status |-> 0, body |-> [none |-> TRUE]]

InitIdleHttp ==
    /\ httpRequest = NoRequest
    /\ httpResponse = NoResponse
    /\ upstreamCalls = 0

InitIdleSync ==
    /\ loadResult = <<>>
    /\ notifications = <<>>

\* the alert panel has not been drawn
NoDisplay == [drawn |-> FALSE]

InitIdleDisplay == display = NoDisplay

\* no sendToGroq call is waiting
NoCall == [pc |-> "idle", waiting |-> 0, before |-> <<>>, undisturbed |-> TRUE, outcome |-> ""]

InitIdleChat ==
    /\ conversationHistory = <<>>
    /\ aiCall = NoCall

\* nothing has been sorted yet
NoListing == [by |-> ""]

InitIdleList == listing = NoListing

\* posConfig/main has not been created
NoPosDoc == [exists |-> FALSE, connected |-> FALSE, autoUpdates |-> 0, lastSync |-> 0]

\* the POS controller has answered nothing
NoPosAnswer == [op |-> "", status |-> 0, error |-> ""]

InitIdlePosApi ==
    /\ posDoc = NoPosDoc
    /\ posCalls = [c \in 1..MaxPosCalls |-> [pc |-> "idle"]]
    /\ posAnswer = NoPosAnswer
    /\ posTally = [syncs |-> 0, saves |-> 0]
    /\ posClock = 1

\* nothing has been exported
NoCsv == [by |-> "", content |-> <<>>]

InitIdleCsv == csv = NoCsv

\* the auth controller has answered nothing
NoAuthAnswer == [op |-> "", status |-> 0, error |-> ""]

InitIdleRegister ==
    /\ users = <<>>
    /\ tokens = {}
    /\ authAnswer = NoAuthAnswer

\* the inputs of the filter bar are empty
NoFilters == [search |-> "", category |-> "", status |-> ""]

\* no onSnapshot listener is active and inventoryState.unsubscribe is null
NoSubscription == [app |-> "modules", active |-> 0, unsubscribe |-> FALSE]

InitIdleLive ==
    /\ filteredItems = <<>>
    /\ filterInputs = NoFilters
    /\ subscription = NoSubscription
    /\ refreshedBy = ""

InitIdleLate ==
    /\ InitIdlePosApi
    /\ InitIdleCsv
    /\ InitIdleRegister
    /\ InitIdleLive

InitIdleService ==
    /\ InitIdleLate
    /\ InitIdleHttp
    /\ InitIdleSync
    /\ InitIdleDisplay
    /\ InitIdleChat
    /\ InitIdleList

InitClassify ==
    /\ product \in ProductInputs
    /\ stockInfo = NoStatus
    /\ priorityConfig = NoConfig
    /\ estimate = NoEstimate
    /\ InitIdleAlerts
    /\ InitIdleApi
    /\ InitIdleClient
    /\ InitIdleService

Classify ==
    /\ stockInfo' = calculateStockStatus(product)
    /\ UNCHANGED <<product, priorityConfig, estimate, alertVars, inventory, apiVars, clientVars, serviceVars>>

NextClassify == Classify

SpecClassify == InitClassify /\ [][NextClassify]_vars

\* ------------------------------------------------------------------------
\* The alert generator applied to an item list
\* ------------------------------------------------------------------------
AlertItemInputs ==
    [name : {"Gin"}, category : {"Spirits"}, stock : 0..MaxAlertStock,
     priority : {"", "medium", "low", "critical"}, alertThreshold : {1}]

\* the documents of a snapshot, each with its own document id
WithIds(docs) ==
    [i \in 1..Len(docs) |->
        [id |-> i, name |-> docs[i].name, category |-> docs[i].category,
         stock |-> docs[i].stock, priority |-> docs[i].priority,
         alertThreshold |-> docs[i].alertThreshold]]

AlertItemLists ==
    {WithIds(docs) : docs \in UNION {[1..n -> AlertItemInputs] : n \in 0..MaxItems}}

InitAlerts ==
    /\ items \in AlertItemLists
    /\ alerts = <<>>
    /\ generated = FALSE
    /\ InitIdleClassifier
    /\ InitIdleApi
    /\ InitIdleClient
    /\ InitIdleService

\* generateAlerts(): alertState.alerts is rebuilt from getInventoryItems()
\* and sorted
GenerateAlerts ==
    /\ alerts' = generateAlertsOf(items)
    /\ generated' = TRUE
    /\ UNCHANGED <<items, classifierVars, inventory, apiVars, clientVars, serviceVars>>

NextAlerts == GenerateAlerts

SpecAlerts == InitAlerts /\ [][NextAlerts]_vars

\* ------------------------------------------------------------------------
\* The Express inventory API
\* ------------------------------------------------------------------------
DocIds == 1..MaxDocs

StoredStocks == -StockCap..StockCap

\* the stock a response or a pending write would store is within the bound
WithinStockCap(d) ==
    /\ \A id \in DOMAIN d.inv : d.inv[id].stock \in StoredStocks
    /\ (d.req.write.kind = "update" /\ "stock" \in DOMAIN d.req.write.fields)
          => d.req.write.fields.stock \in StoredStocks

\* a request arrives at an idle slot and runs to its response or to the
\* first write its handler waits for
ApiRequest(slot, route, authorization, id, body) ==
    /\ reqs[slot] = Idle
    /\ LET d == Dispatch(route, authorization, id, body, inventory, dbAvailable)
       IN  /\ DOMAIN d.inv \subseteq DocIds
           /\ WithinStockCap(d)
           /\ reqs' = [reqs EXCEPT ![slot] = d.req]
           /\ inventory' = d.inv
    /\ UNCHANGED <<dbAvailable, classifierVars, alertVars, clientVars, serviceVars>>

\* the write of updateItem, updateStock or deleteItem reaches the store and
\* the handler responds; update() of a document deleted meanwhile rejects
\* and the request ends in the error handler
ApiWrite(slot) ==
    /\ reqs[slot].pc = "write"
    /\ LET r == reqs[slot]
       IN  IF r.write.kind = "delete"
           THEN /\ inventory' = DeleteDoc(inventory, r.id)
                /\ reqs' = [reqs EXCEPT ![slot] = [r EXCEPT !.pc = "done", !.status = 200]]
           ELSE IF r.id \in DOMAIN inventory
                THEN /\ inventory' = UpdateDoc(inventory, r.id, r.write.fields)
                     /\ reqs' = [reqs EXCEPT ![slot] =
                                    [r EXCEPT !.pc = "done", !.status = 200]]
                ELSE /\ inventory' = inventory
                     /\ reqs' = [reqs EXCEPT ![slot] =
                                    [r EXCEPT !.pc = "done", !.status = 500,
                                              !.error = "No document to update"]]
    /\ UNCHANGED <<dbAvailable, classifierVars, alertVars, clientVars, serviceVars>>

\* the response has been sent and the slot is free again
ApiRespond(slot) ==
    /\ reqs[slot].pc = "done"
    /\ reqs' = [reqs EXCEPT ![slot] = Idle]
    /\ UNCHANGED <<inventory, dbAvailable, classifierVars, alertVars, clientVars, serviceVars>>

ValidTokens == [kind : {"valid"}, role : USER_ROLES]

TokenInputs ==
    ValidTokens \cup [kind : {"expired", "wrongsig"}, role : USER_ROLES]
                \cup {[kind |-> "malformed", role |-> ""]}

\* the Authorization header: missing, not starting with 'Bearer ', or
\* 'Bearer <token>'
AuthorizationInputs ==
    {[kind |-> "missing", token |-> NoToken], [kind |-> "basic", token |-> NoToken]}
        \cup [kind : {"bearer"}, token : TokenInputs]

ApiAuthorizations ==
    {[kind |-> "missing", token |-> NoToken]} \cup [kind : {"bearer"}, token : ValidTokens]

NoBody == [none |-> TRUE]

CreateBodies ==
    {[name |-> "", category |-> "Spirits", stock |-> 0, priority |-> "", alertThreshold |-> 0],
     [name |-> "Gin", category |-> "", stock |-> 0, priority |-> "", alertThreshold |-> 0]}
    \cup [name : {"Gin"}, category : {"Spirits"}, stock : {-1, 0, 2},
          priority : {"", "low"}, alertThreshold : {0}]

UpdateBodies ==
    {[stock |-> -1], [stock |-> 2], [priority |-> "low"], [alertThreshold |-> 1]}

QuantityInputs == {-2, 1, 3}

StockBodies ==
    [hasQuantity : {FALSE}, quantity : {0}, action : {"add"}]
    \cup [hasQuantity : {TRUE}, quantity : QuantityInputs,
          action : {"", "add", "subtract", "set"}]

BodiesOf(route) ==
    CASE route = "POST"   -> CreateBodies
      [] route = "PUT"    -> UpdateBodies
      [] route = "PATCH"  -> StockBodies
      [] route = "DELETE" -> {NoBody}

InitApi ==
    /\ inventory = EmptyInventory
    /\ dbAvailable \in BOOLEAN
    /\ reqs = [s \in Slots |-> Idle]
    /\ InitIdleClassifier
    /\ InitIdleAlerts
    /\ InitIdleClient
    /\ InitIdleService

ApiCall ==
    \E route \in MutatingRoutes, authorization \in ApiAuthorizations, id \in DocIds :
        \E body \in BodiesOf(route) : ApiRequest(1, route, authorization, id, body)

ApiStore == ApiWrite(1)

ApiDone == ApiRespond(1)

NextApi == ApiCall \/ ApiStore \/ ApiDone

SpecApi == InitApi /\ [][NextApi]_vars

\* requests that differ in their Authorization header only
AuthCall ==
    \E route \in MutatingRoutes, authorization \in AuthorizationInputs :
        ApiRequest(1, route, authorization, 1, CHOOSE body \in BodiesOf(route) : TRUE)

NextAuth == AuthCall \/ ApiStore \/ ApiDone

SpecAuth == InitApi /\ [][NextAuth]_vars

\* ------------------------------------------------------------------------
\* The browser client
\* ------------------------------------------------------------------------
ClientEmails ==
    {"admin@inventory.com", "manager@inventory.com", "staff@inventory.com",
     "guest@example.com"}

\* the documents of a query snapshot as the client stores them, in the
\* order of their ids
RECURSIVE SnapshotFrom(_, _, _)
SnapshotFrom(inv, id, last) ==
    IF id > last
    THEN <<>>
    ELSE (IF id \in DOMAIN inv
          THEN <<[id |-> id, name |-> inv[id].name, category |-> inv[id].category,
                  stock |-> inv[id].stock, priority |-> inv[id].priority,
                  alertThreshold |-> inv[id].alertThreshold]>>
          ELSE <<>>) \o SnapshotFrom(inv, id + 1, last)

Snapshot(inv) == SnapshotFrom(inv, 1, MaxDocs)

MutReplaceItemsAppends(oldItems, docs) == oldItems \o docs

\* inventoryState.items = []; snapshot.forEach(doc => items.push(...)): the
\* item list is replaced by the documents of the snapshot
replaceItems(oldItems, docs) == docs

MutInventoryChangedKeepsAlerts(itemList, oldAlerts) == oldAlerts

\* the listener setupModuleListeners registers with onInventoryChange:
\* generateAlerts() rebuilds the alert list from the item list
InventoryChanged(itemList, oldAlerts) == generateAlertsOf(itemList)

\* Firebase reports a sign-in (user is an e-mail address) or a sign-out
\* (user is ""); after a sign-in handleAuthSuccess starts loadInventoryData
AuthStateChanged(user) ==
    /\ user # authState.currentUser
    /\ authState' = onAuthStateChanged(authState, user)
    /\ loadPending' = IF user # "" THEN TRUE ELSE loadPending
    /\ UNCHANGED <<listening, posVars, lastOp, inventory, alertVars, apiVars, classifierVars, serviceVars>>

\* getDocs of loadInventoryData resolves: the item list is replaced, the
\* inventory listeners regenerate the alerts, and handleAuthSuccess goes on
\* to setupRealtimeListener, which subscribes if a user is signed in
LoadCompleted ==
    /\ loadPending
    /\ loadPending' = FALSE
    /\ items' = replaceItems(items, Snapshot(inventory))
    /\ alerts' = InventoryChanged(items', alerts)
    /\ generated' = TRUE
    /\ listening' = IF authState.currentUser # "" THEN TRUE ELSE listening
    /\ UNCHANGED <<authState, posVars, lastOp, inventory, apiVars, classifierVars, serviceVars>>

\* the live subscription delivers the collection: the item list is
\* replaced and the alerts are regenerated
SnapshotDelivered ==
    /\ listening
    /\ items' = replaceItems(items, Snapshot(inventory))
    /\ alerts' = InventoryChanged(items', alerts)
    /\ generated' = TRUE
    /\ UNCHANGED <<clientVars, inventory, apiVars, classifierVars, serviceVars>>

\* the effect of a client operation: its Firestore write, if any, and the
\* record of how it ended
ClientOp(op, outcome) ==
    /\ lastOp' = [op |-> op, notice |-> outcome.notice,
                  wrote |-> outcome.write # NoWrite, threw |-> outcome.threw]
    /\ IF outcome.write # NoWrite /\ outcome.write.kind = "update"
       THEN /\ inventory' = UpdateDoc(inventory, outcome.write.id, outcome.write.fields)
            /\ \A id \in DOMAIN inventory' : inventory'[id].stock \in StoredStocks
       ELSE inventory' = inventory
    /\ IF outcome.write # NoWrite /\ outcome.write.kind = "setPos"
       THEN /\ posConfig' = outcome.write.data
            /\ posState' = [f \in DOMAIN posState \cup DOMAIN outcome.write.data |->
                               IF f \in DOMAIN outcome.write.data
                               THEN outcome.write.data[f] ELSE posState[f]]
       ELSE UNCHANGED posVars
    /\ UNCHANGED <<sessionVars, alertVars, apiVars, classifierVars, serviceVars>>

PromptInputs == {-2, 0, 2}

\* a click on the add or remove button of a row of the rendered table
QuickUpdate ==
    \E i \in 1..Len(items), action \in {"add", "subtract"}, promptValue \in PromptInputs :
        ClientOp("quickUpdate",
                 quickUpdate(authState, inventory, items[i].id, items[i].stock,
                             action, promptValue))

QuickRestock ==
    \E productId \in DocIds, promptValue \in {0, 1} :
        ClientOp("quickRestock",
                 quickRestock(authState, inventory, alerts, items, productId, promptValue))

UpdateProductPriority ==
    \E itemId \in DocIds, priority \in {"low"}, threshold \in {1} :
        ClientOp("updateProductPriority",
                 updateProductPriority(authState, inventory, itemId, priority, threshold))

PosConfigInputs ==
    [system : {"toast"}, apiKey : {"", "key"}, restaurantId : {"r1"},
     syncFrequency : {"5min"}]

SavePOSConfig ==
    \E config \in PosConfigInputs :
        ClientOp("savePOSConfig", savePOSConfig(authState, config))

\* updateStock of modules/inventory.js called with a stock value
ClientUpdateStock ==
    \E itemId \in DocIds, newStock \in {-1, 0, 2} :
        ClientOp("updateStock", inventoryUpdateStock(inventory, itemId, newStock))

SignIn == \E user \in ClientEmails : AuthStateChanged(user)

SignOut == AuthStateChanged("")

\* the collection as the client finds it: a store seeded with one document
SeededIds == {1}

InitialInventory ==
    [id \in SeededIds |-> [name |-> "Gin", category |-> "Spirits", stock |-> 1,
                           priority |-> "", alertThreshold |-> 0]]

InitClient ==
    /\ inventory = InitialInventory
    /\ dbAvailable = TRUE
    /\ reqs = [s \in Slots |-> Idle]
    /\ InitIdleClient
    /\ InitIdleAlerts
    /\ InitIdleClassifier
    /\ InitIdleService

NextClient ==
    \/ SignIn
    \/ SignOut
    \/ LoadCompleted
    \/ SnapshotDelivered
    \/ QuickUpdate
    \/ QuickRestock
    \/ UpdateProductPriority
    \/ SavePOSConfig

SpecClient == InitClient /\ [][NextClient]_vars

\* ------------------------------------------------------------------------
\* The store with its two writers: the API and the client
\* ------------------------------------------------------------------------
WriterBodies(route) ==
    CASE route = "POST"   -> {[name |-> "Gin", category |-> "Spirits", stock |-> s,
                               priority |-> "", alertThreshold |-> 0] : s \in {-1, 1}}
      [] route = "PUT"    -> {[stock |-> -1], [priority |-> "low"], [alertThreshold |-> 1]}
      [] route = "PATCH"  -> [hasQuantity : {TRUE}, quantity : {-2, 2},
                              action : {"add", "subtract"}]
      [] route = "DELETE" -> {NoBody}

WriterCall ==
    \E route \in MutatingRoutes, token \in ValidTokens, id \in DocIds :
        \E body \in WriterBodies(route) :
            ApiRequest(1, route, [kind |-> "bearer", token |-> token], id, body)

Next ==
    \/ WriterCall
    \/ ApiStore
    \/ ApiDone
    \/ SignIn
    \/ SignOut
    \/ ClientUpdateStock
    \/ UpdateProductPriority

Init ==
    /\ inventory = EmptyInventory
    /\ dbAvailable = TRUE
    /\ reqs = [s \in Slots |-> Idle]
    /\ InitIdleClient
    /\ InitIdleAlerts
    /\ InitIdleClassifier
    /\ InitIdleService

Spec == Init /\ [][Next]_vars

\* ------------------------------------------------------------------------
\* The AI endpoints: POST /api/ai/chat of the Express API, the 404 handler,
\* and the Cloud Functions aiChat, getAIPredictions, generateShoppingList
\* ------------------------------------------------------------------------

\* new ApiError(statusCode, message)
ApiError(statusCode, message) == [statusCode |-> statusCode, message |-> message]

\* an Error thrown by the runtime: it has no statusCode
RuntimeError(message) == [statusCode |-> 0, message |-> message]

\* errorHandler(err, req, res, next)
errorHandler(err) ==
    [status |-> IF err.statusCode # 0 THEN err.statusCode ELSE 500,
     body |-> [success |-> FALSE,
               error |-> IF err.message # "" THEN err.message
                         ELSE "Internal server error"]]

\* the last middleware of the server: no route matched
notFoundHandler ==
    [status |-> 404, body |-> [success |-> FALSE, error |-> "Endpoint not found"]]

\* what fetch(GROQ_API_URL) and response.json() do for an outcome of the
\* completion endpoint: fetch rejects when it is unreachable, json() rejects
\* when the body of an error answer is not JSON
FetchRejects(upstream) == upstream.kind = "unreachable"

JsonRejects(upstream) == upstream.kind = "status" /\ ~upstream.json

\* chat(req, res) behind asyncHandler and errorHandler
chat(req) ==
    IF req.message = ""
    THEN [response |-> errorHandler(ApiError(400, "Message is required")), calls |-> 0]
    ELSE IF ~req.apiKey
         THEN [response |->
                   errorHandler(ApiError(500, "AI service not configured. Please set GROQ_API_KEY.")),
               calls |-> 0]
         ELSE IF FetchRejects(req.upstream)
              THEN [response |-> errorHandler(RuntimeError("fetch failed")), calls |-> 1]
              ELSE IF req.upstream.kind = "status"
                   THEN [response |->
                             IF JsonRejects(req.upstream)
                             THEN errorHandler(RuntimeError("Unexpected token"))
                             ELSE errorHandler(ApiError(req.upstream.status,
                                                        "AI service error. Please try again.")),
                         calls |-> 1]
                   ELSE [response |-> [status |-> 200,
                                       body |-> [success |-> TRUE, data |-> "message"]],
                         calls |-> 1]

\* router.post('/chat', verifyToken, chat); any other method or path ends
\* in the 404 handler
ExpressServe(req) ==
    IF req.endpoint = "chat" /\ req.method = "POST"
    THEN LET verified == verifyToken(req.authorization)
         IN  IF verified.status # 0
             THEN [response |-> [status |-> verified.status,
                                 body |-> [success |-> FALSE, error |-> verified.error]],
                   calls |-> 0]
             ELSE chat(req)
    ELSE [response |-> notFoundHandler, calls |-> 0]

\* exports.aiChat
aiChat(req) ==
    IF req.method # "POST"
    THEN [response |-> [status |-> 405, body |-> [error |-> "Method not allowed"]],
          calls |-> 0]
    ELSE IF req.message = ""
         THEN [response |-> [status |-> 400, body |-> [error |-> "Message is required"]],
               calls |-> 0]
         ELSE IF ~req.apiKey
              THEN [response |->
                        [status |-> 500,
                         body |-> [error |-> "AI service not configured. Please contact administrator."]],
                    calls |-> 0]
              ELSE IF FetchRejects(req.upstream) \/ JsonRejects(req.upstream)
                   THEN [response |->
                             [status |-> 500,
                              body |-> [error |-> "Internal server error. Please try again."]],
                         calls |-> 1]
                   ELSE IF req.upstream.kind = "status"
                        THEN [response |->
                                  [status |-> req.upstream.status,
                                   body |-> [error |-> "AI service error. Please try again."]],
                              calls |-> 1]
                        ELSE [response |-> [status |-> 200,
                                            body |-> [success |-> TRUE, message |-> "message"]],
                              calls |-> 1]

\* exports.getAIPredictions and exports.generateShoppingList: the same
\* steps, without a message and without reading the body of an error answer
aiGenerate(req) ==
    IF req.method # "POST"
    THEN [response |-> [status |-> 405, body |-> [error |-> "Method not allowed"]],
          calls |-> 0]
    ELSE IF ~req.apiKey
         THEN [response |-> [status |-> 500, body |-> [error |-> "AI service not configured"]],
               calls |-> 0]
         ELSE IF FetchRejects(req.upstream)
              THEN [response |-> [status |-> 500, body |-> [error |-> "Internal server error"]],
                    calls |-> 1]
              ELSE IF req.upstream.kind = "status"
                   THEN [response |-> [status |-> req.upstream.status,
                                       body |-> [error |-> "AI service error"]],
                         calls |-> 1]
                   ELSE [response |-> [status |-> 200,
                                       body |-> [success |-> TRUE, generated |-> "message"]],
                         calls |-> 1]

FunctionServe(req) ==
    IF req.endpoint = "aiChat" THEN aiChat(req) ELSE aiGenerate(req)

\* the answers of the completion endpoint
UpstreamInputs ==
    {[kind |-> "ok", status |-> 200, json |-> TRUE], [kind |-> "unreachable", status |-> 0, json |-> FALSE]}
        \cup [kind : {"status"}, status : {401, 429, 503}, json : BOOLEAN]

HttpRequests(endpoints) ==
    [endpoint : endpoints, method : {"GET", "POST"},
     authorization : {[kind |-> "missing", token |-> NoToken],
                      [kind |-> "bearer", token |-> [kind |-> "expired", role |-> "staff"]],
                      [kind |-> "bearer", token |-> [kind |-> "valid", role |-> "staff"]]},
     message : {"", "hi"}, apiKey : BOOLEAN, upstream : UpstreamInputs]

\* the Express server answers a request to /api/ai/chat or to no route
ExpressRequest ==
    \E req \in HttpRequests({"chat", "unknown"}) :
        /\ httpRequest' = req
        /\ httpResponse' = ExpressServe(req).response
        /\ upstreamCalls' = ExpressServe(req).calls
        /\ UNCHANGED <<classifierVars, alertVars, inventory, apiVars, clientVars, syncVars, displayVars, chatVars, listVars, lateVars>>

\* a Cloud Function answers a request
FunctionRequest ==
    \E req \in HttpRequests({"aiChat", "getAIPredictions", "generateShoppingList"}) :
        /\ httpRequest' = req
        /\ httpResponse' = FunctionServe(req).response
        /\ upstreamCalls' = FunctionServe(req).calls
        /\ UNCHANGED <<classifierVars, alertVars, inventory, apiVars, clientVars, syncVars, displayVars, chatVars, listVars, lateVars>>

InitHttp ==
    /\ InitIdleHttp
    /\ InitIdleSync
    /\ InitIdleLate
    /\ InitIdleDisplay
    /\ InitIdleChat
    /\ InitIdleList
    /\ InitIdleClassifier
    /\ InitIdleAlerts
    /\ InitIdleApi
    /\ InitIdleClient

NextHttp ==
    \/ ExpressRequest
    \/ FunctionRequest

SpecHttp == InitHttp /\ [][NextHttp]_vars


\* ------------------------------------------------------------------------
\* The client's item list under loads and live updates in flight: what
\* getDocs read and what the subscription sent reach their callbacks later
\* ------------------------------------------------------------------------

\* getDocs of a started loadInventoryData reads the collection
GetDocsRead ==
    /\ loadPending
    /\ loadResult = <<>>
    /\ loadResult' = <<Snapshot(inventory)>>
    /\ UNCHANGED <<notifications, httpVars, displayVars, chatVars, listVars, lateVars, classifierVars, alertVars, inventory,
                   apiVars, clientVars>>

\* the await of loadInventoryData resumes with what getDocs read; then
\* handleAuthSuccess subscribes if a user is signed in
LoadResolved ==
    /\ loadResult # <<>>
    /\ items' = replaceItems(items, loadResult[1])
    /\ alerts' = InventoryChanged(items', alerts)
    /\ generated' = TRUE
    /\ loadResult' = <<>>
    /\ loadPending' = FALSE
    /\ listening' = IF authState.currentUser # "" THEN TRUE ELSE listening
    /\ UNCHANGED <<notifications, httpVars, displayVars, chatVars, listVars, lateVars, authState, posVars, lastOp, inventory,
                   apiVars, classifierVars>>

\* Firestore sends the subscription the collection as it is now
SnapshotSent ==
    /\ listening
    /\ Len(notifications) < MaxQueue
    /\ notifications' = Append(notifications, Snapshot(inventory))
    /\ UNCHANGED <<loadResult, httpVars, displayVars, chatVars, listVars, lateVars, classifierVars, alertVars, inventory,
                   apiVars, clientVars>>

\* the onSnapshot callback runs for the oldest undelivered snapshot
NotificationDelivered ==
    /\ notifications # <<>>
    /\ items' = replaceItems(items, Head(notifications))
    /\ alerts' = InventoryChanged(items', alerts)
    /\ generated' = TRUE
    /\ notifications' = Tail(notifications)
    /\ UNCHANGED <<loadResult, httpVars, displayVars, chatVars, listVars, lateVars, clientVars, inventory, apiVars, classifierVars>>

InitSync ==
    /\ inventory = InitialInventory
    /\ dbAvailable = TRUE
    /\ reqs = [s \in Slots |-> Idle]
    /\ InitIdleClient
    /\ InitIdleAlerts
    /\ InitIdleClassifier
    /\ InitIdleService

NextSync ==
    \/ SignIn
    \/ SignOut
    \/ GetDocsRead
    \/ LoadResolved
    \/ SnapshotSent
    \/ NotificationDelivered
    \/ ClientUpdateStock

SpecSync == InitSync /\ [][NextSync]_vars


\* ------------------------------------------------------------------------
\* The priority configuration resolved for one item, whose category,
\* priority and alertThreshold fields may each be missing
\* ------------------------------------------------------------------------
OptionalFields == {"category", "priority", "alertThreshold"}

FullProducts ==
    [id : {1}, name : {"Gin"}, category : {"Spirits", "Soft Drinks", "Other"},
     stock : {0, 5}, priority : {"high", "low"}, alertThreshold : {0, 1, 20}]

\* the product with only the given optional fields
WithFields(full, fields) ==
    [f \in {"id", "name", "stock"} \cup fields |-> full[f]]

PriorityProductInputs ==
    {WithFields(full, fields) : full \in FullProducts, fields \in SUBSET OptionalFields}

InitPriority ==
    /\ product \in PriorityProductInputs
    /\ stockInfo = NoStatus
    /\ priorityConfig = NoConfig
    /\ estimate = NoEstimate
    /\ InitIdleAlerts
    /\ InitIdleApi
    /\ InitIdleClient
    /\ InitIdleService

ResolvePriority ==
    /\ priorityConfig' = getProductPriority(product)
    /\ UNCHANGED <<product, stockInfo, estimate, alertVars, inventory, apiVars, clientVars, serviceVars>>

NextPriority == ResolvePriority

SpecPriority == InitPriority /\ [][NextPriority]_vars


\* ------------------------------------------------------------------------
\* The estimates of an alert computed for one item: days until empty and
\* suggested reorder quantity
\* ------------------------------------------------------------------------
EstimateProductInputs ==
    [id : {1}, name : {"Gin"}, category : {"Spirits"}, stock : 0..MaxEstimateStock,
     priority : {""}, alertThreshold : {0, 3, 4, 7}]

InitEstimate ==
    /\ product \in EstimateProductInputs
    /\ stockInfo = NoStatus
    /\ priorityConfig = NoConfig
    /\ estimate = NoEstimate
    /\ InitIdleAlerts
    /\ InitIdleApi
    /\ InitIdleClient
    /\ InitIdleService

\* daysUntilEmpty and suggestedQuantity as generateAlerts computes them from
\* the product and its resolved configuration
EstimateAlert ==
    /\ priorityConfig # NoConfig
    /\ estimate' = [daysUntilEmpty |-> estimateDaysUntilEmpty(product),
                    suggestedQuantity |-> calculateSuggestedQuantity(product, priorityConfig)]
    /\ UNCHANGED <<product, stockInfo, priorityConfig, alertVars, inventory, apiVars,
                   clientVars, serviceVars>>

\* generateAlerts of js/app.js pushes an alert for a product that needs
\* attention; the alert has no suggested quantity
LegacyEstimateAlert ==
    /\ priorityConfig # NoConfig
    /\ NeedsAttention(calculateStockStatus(product).status)
    /\ estimate' = [daysUntilEmpty |-> legacyDaysUntilEmpty(product)]
    /\ UNCHANGED <<product, stockInfo, priorityConfig, alertVars, inventory, apiVars,
                   clientVars, serviceVars>>

NextEstimate ==
    \/ ResolvePriority
    \/ EstimateAlert
    \/ LegacyEstimateAlert

SpecEstimate == InitEstimate /\ [][NextEstimate]_vars


\* ------------------------------------------------------------------------
\* The alert panel: what the interface reads from the alerts module
\* ------------------------------------------------------------------------
\* getAlerts(): a copy of alertState.alerts
getAlerts(alertList) == alertList

MutGetDisplayAlertsUncapped(alertList) == alertList

\* getDisplayAlerts(): alertState.alerts.slice(0, MAX_VISIBLE_ALERTS)
getDisplayAlerts(alertList) ==
    SubSeq(alertList, 1, IF Len(alertList) < MAX_VISIBLE_ALERTS THEN Len(alertList) ELSE MAX_VISIBLE_ALERTS)

\* getHiddenAlertCount(): Math.max(0, alertState.alerts.length - MAX_VISIBLE_ALERTS)
getHiddenAlertCount(alertList) ==
    IF Len(alertList) - MAX_VISIBLE_ALERTS > 0 THEN Len(alertList) - MAX_VISIBLE_ALERTS ELSE 0

\* updateAlertsDisplay(): the cards and the hidden count the panel shows
updateAlertsDisplay(alertList) ==
    [drawn |-> TRUE,
     alerts |-> getDisplayAlerts(alertList),
     hiddenCount |-> getHiddenAlertCount(alertList)]

\* items that all need attention, of two urgencies
DisplayItemInputs ==
    [name : {"Gin"}, category : {"Spirits"}, stock : {0},
     priority : {"high", "low"}, alertThreshold : {1}]

DisplayItemLists ==
    {WithIds(docs) : docs \in UNION {[1..n -> DisplayItemInputs] : n \in 0..MaxDisplayItems}}

InitDisplay ==
    /\ items \in DisplayItemLists
    /\ alerts = <<>>
    /\ generated = FALSE
    /\ InitIdleClassifier
    /\ InitIdleApi
    /\ InitIdleClient
    /\ InitIdleService

\* generateAlerts() notifies the onAlertsChange listener, which redraws the
\* panel from the list just generated
AlertsChanged ==
    /\ alerts' = generateAlertsOf(items)
    /\ generated' = TRUE
    /\ display' = updateAlertsDisplay(alerts')
    /\ UNCHANGED <<items, classifierVars, inventory, apiVars, clientVars, httpVars, syncVars, chatVars, listVars, lateVars>>

NextDisplay == AlertsChanged

SpecDisplay == InitDisplay /\ [][NextDisplay]_vars

\* ------------------------------------------------------------------------
\* The client's AI module: conversationHistory across sendToGroq calls
\* ------------------------------------------------------------------------
UserMessages == {"hi", "more"}

AssistantMessages == {"ok"}

\* conversationHistory.slice(-MAX_CONVERSATION_HISTORY)
lastEntries(history, count) ==
    IF Len(history) > count THEN SubSeq(history, Len(history) - count + 1, Len(history)) ELSE history

\* sendToGroq up to its fetch: the user message is pushed and the history cut
\* back to its last MAX_CONVERSATION_HISTORY entries
pushUserMessage(history, userMessage) ==
    LET pushed == Append(history, [role |-> "user", content |-> userMessage])
    IN  IF Len(pushed) > MAX_CONVERSATION_HISTORY
        THEN lastEntries(pushed, MAX_CONVERSATION_HISTORY)
        ELSE pushed

\* sendToGroq after a successful answer: the assistant message is pushed
pushAssistantMessage(history, assistantMessage) ==
    Append(history, [role |-> "assistant", content |-> assistantMessage])

\* sendToGroq's catch block: conversationHistory.pop()
popFailedMessage(history) ==
    IF history = <<>> THEN history ELSE SubSeq(history, 1, Len(history) - 1)

InitChat ==
    /\ conversationHistory = <<>>
    /\ aiCall = NoCall
    /\ InitIdleClassifier
    /\ InitIdleAlerts
    /\ InitIdleApi
    /\ InitIdleClient
    /\ InitIdleHttp
    /\ InitIdleSync
    /\ InitIdleLate
    /\ InitIdleDisplay
    /\ InitIdleList

\* sendToGroq is called and reaches its await
SendToGroqStart ==
    \E userMessage \in UserMessages :
        /\ aiCall.waiting < MaxCalls
        /\ conversationHistory' = pushUserMessage(conversationHistory, userMessage)
        /\ aiCall' = [pc |-> "waiting", waiting |-> aiCall.waiting + 1,
                      before |-> conversationHistory, undisturbed |-> aiCall.waiting = 0,
                      outcome |-> ""]
        /\ UNCHANGED <<classifierVars, alertVars, inventory, apiVars, clientVars, httpVars, syncVars, displayVars, listVars, lateVars>>

\* a waiting call resumes after its await; before is the history when the
\* call began, undisturbed says that no other call and no clearing touched
\* the history since
Resumed(call, outcome) ==
    [call EXCEPT !.pc = IF call.waiting = 1 THEN "idle" ELSE "waiting",
                 !.waiting = call.waiting - 1,
                 !.outcome = outcome]

\* the fetch of a waiting call answers with success
SendToGroqAnswered ==
    \E assistantMessage \in AssistantMessages :
        /\ aiCall.waiting > 0
        /\ conversationHistory' = pushAssistantMessage(conversationHistory, assistantMessage)
        /\ aiCall' = Resumed(aiCall, "answered")
        /\ UNCHANGED <<classifierVars, alertVars, inventory, apiVars, clientVars, httpVars, syncVars, displayVars, listVars, lateVars>>

\* the fetch of a waiting call rejects or answers with an error
SendToGroqFailed ==
    /\ aiCall.waiting > 0
    /\ conversationHistory' = popFailedMessage(conversationHistory)
    /\ aiCall' = Resumed(aiCall, "failed")
    /\ UNCHANGED <<classifierVars, alertVars, inventory, apiVars, clientVars, httpVars, syncVars, displayVars, listVars, lateVars>>

\* clearAIConversation()
ClearAIConversation ==
    /\ conversationHistory' = <<>>
    /\ aiCall' = [aiCall EXCEPT !.undisturbed = FALSE]
    /\ UNCHANGED <<classifierVars, alertVars, inventory, apiVars, clientVars, httpVars, syncVars, displayVars, listVars, lateVars>>

NextChat ==
    \/ SendToGroqStart
    \/ SendToGroqAnswered
    \/ SendToGroqFailed
    \/ ClearAIConversation

SpecChat == InitChat /\ [][NextChat]_vars

\* ------------------------------------------------------------------------
\* Listing the inventory: the three places that sort the item list
\* ------------------------------------------------------------------------
\* STATUS_ORDER[status] || 0
STATUS_ORDER(status) ==
    CASE status = URGENT  -> 4
      [] status = NORMAL  -> 3
      [] status = INFO    -> 2
      [] status = GOOD    -> 1
      [] status = OPTIMAL -> 0
      [] OTHER            -> 0

ListNames == <<"Ale", "Gin", "Rum">>

\* the position of a name in alphabetical order
NameRank(name) == CHOOSE i \in 1..Len(ListNames) : ListNames[i] = name

\* a.name.localeCompare(b.name)
localeCompare(a, b) ==
    IF NameRank(a) < NameRank(b) THEN -1 ELSE IF NameRank(a) > NameRank(b) THEN 1 ELSE 0

\* name.toLowerCase()
toLowerCase(name) ==
    CASE name = "Ale" -> "ale"
      [] name = "Gin" -> "gin"
      [] name = "Rum" -> "rum"
      [] OTHER        -> name

\* the comparator each sort passes to Array.prototype.sort
compareItems(by, a, b) ==
    LET aStatus == calculateStockStatus(a).status
        bStatus == calculateStockStatus(b).status
    IN  CASE by = "applyFilters" ->
                LET statusDiff == STATUS_ORDER(bStatus) - STATUS_ORDER(aStatus)
                IN  IF statusDiff # 0 THEN statusDiff ELSE localeCompare(a.name, b.name)
          [] by = "getAllItems" ->
                STATUS_ORDER(bStatus) - STATUS_ORDER(aStatus)
          [] by = "renderTable" ->
                LET statusDiff == STATUS_ORDER(aStatus) - STATUS_ORDER(bStatus)
                IN  IF statusDiff # 0 THEN statusDiff ELSE localeCompare(a.name, b.name)

\* Array.prototype.sort is stable
RECURSIVE InsertItem(_, _, _)
InsertItem(by, sorted, item) ==
    IF sorted = <<>>
    THEN <<item>>
    ELSE IF compareItems(by, Head(sorted), item) <= 0
         THEN <<Head(sorted)>> \o InsertItem(by, Tail(sorted), item)
         ELSE <<item>> \o sorted

RECURSIVE SortItems(_, _)
SortItems(by, list) ==
    IF list = <<>>
    THEN <<>>
    ELSE InsertItem(by, SortItems(by, SubSeq(list, 1, Len(list) - 1)), list[Len(list)])

\* the search strings of the model are whole lower-cased names, none of them
\* part of another name: includes() is then equality
matchesFilters(item, filters) ==
    /\ filters.search = "" \/ toLowerCase(item.name) = toLowerCase(filters.search)
    /\ filters.category = "" \/ item.category = filters.category
    /\ filters.status = "" \/ calculateStockStatus(item).status = filters.status

RECURSIVE FilterItems(_, _)
FilterItems(list, filters) ==
    IF list = <<>>
    THEN <<>>
    ELSE IF matchesFilters(Head(list), filters)
         THEN <<Head(list)>> \o FilterItems(Tail(list), filters)
         ELSE FilterItems(Tail(list), filters)

\* applyFilters({search, category, status}) of the inventory module
applyFilters(itemList, filters) == SortItems("applyFilters", FilterItems(itemList, filters))

\* clearFilters() of the inventory module
clearFilters(itemList) == itemList

\* getAllItems of the inventory controller, the database being available
getAllItems(docs, query) == SortItems("getAllItems", FilterItems(docs, query))

\* renderTable() of js/app.js, applied to its filteredData
renderTable(filteredData) == SortItems("renderTable", filteredData)

ListFilters == [search : {"", "gin"}, category : {"", "Beer"}, status : {"", URGENT}]

ListItemInputs ==
    [name : {ListNames[i] : i \in 1..Len(ListNames)}, category : {"Spirits"}, stock : {0, 3, 5},
     priority : {""}, alertThreshold : {0}]

ListItemLists ==
    {WithIds(docs) : docs \in UNION {[1..n -> ListItemInputs] : n \in 0..MaxListItems}}

InitListing ==
    /\ items \in ListItemLists
    /\ alerts = <<>>
    /\ generated = FALSE
    /\ listing = NoListing
    /\ InitIdleClassifier
    /\ InitIdleApi
    /\ InitIdleClient
    /\ InitIdleHttp
    /\ InitIdleSync
    /\ InitIdleLate
    /\ InitIdleDisplay
    /\ InitIdleChat

\* the inventory module filters and sorts its items
ApplyFilters ==
    \E filters \in ListFilters :
        /\ listing' = [by |-> "applyFilters", sorted |-> TRUE, full |-> filters = [search |-> "", category |-> "", status |-> ""],
                       rows |-> applyFilters(items, filters)]
        /\ UNCHANGED <<classifierVars, alertVars, inventory, apiVars, clientVars, httpVars, syncVars, displayVars, chatVars, lateVars>>

\* the inventory module drops its filters
ClearFilters ==
    /\ listing' = [by |-> "clearFilters", sorted |-> FALSE, full |-> TRUE, rows |-> clearFilters(items)]
    /\ UNCHANGED <<classifierVars, alertVars, inventory, apiVars, clientVars, httpVars, syncVars, displayVars, chatVars, lateVars>>

\* GET /api/inventory answers with the documents of the collection
GetAllItems ==
    \E query \in ListFilters :
        /\ listing' = [by |-> "getAllItems", sorted |-> TRUE, full |-> query = [search |-> "", category |-> "", status |-> ""],
                       rows |-> getAllItems(items, query)]
        /\ UNCHANGED <<classifierVars, alertVars, inventory, apiVars, clientVars, httpVars, syncVars, displayVars, chatVars, lateVars>>

\* js/app.js draws its table
RenderTable ==
    /\ listing' = [by |-> "renderTable", sorted |-> TRUE, full |-> TRUE, rows |-> renderTable(items)]
    /\ UNCHANGED <<classifierVars, alertVars, inventory, apiVars, clientVars, httpVars, syncVars, displayVars, chatVars, lateVars>>

NextListing ==
    \/ ApplyFilters
    \/ ClearFilters
    \/ GetAllItems
    \/ RenderTable

SpecListing == InitListing /\ [][NextListing]_vars

\* ------------------------------------------------------------------------
\* backend controllers/pos.controller.js: the posConfig/main document
\* ------------------------------------------------------------------------
\* Math.floor(Math.random() * 5) + 1
SyncIncrements == 1..5

PosBodies == {"complete", "incomplete"}

\* what the other sections leave alone while the POS controller runs
exceptPosApi == <<earlyVars, csvVars, registerVars, liveVars>>

\* saveConfig: POST /api/pos/config replaces the document by set()
saveConfig(body, doc, now) ==
    IF body # "complete"
    THEN [answer |-> [op |-> "saveConfig", status |-> 400, error |-> "System, API key, and restaurant ID are required"],
          doc |-> doc]
    ELSE IF ~dbAvailable
    THEN [answer |-> [op |-> "saveConfig", status |-> 500, error |-> "Database not available"], doc |-> doc]
    ELSE [answer |-> [op |-> "saveConfig", status |-> 200, error |-> ""],
          doc |-> [exists |-> TRUE, connected |-> TRUE, autoUpdates |-> 0, lastSync |-> now]]

\* disconnect: DELETE /api/pos/config updates connected to false; update()
\* rejects when the document does not exist
disconnect(doc) ==
    IF ~dbAvailable
    THEN [answer |-> [op |-> "disconnect", status |-> 500, error |-> "Database not available"], doc |-> doc]
    ELSE IF ~doc.exists
    THEN [answer |-> [op |-> "disconnect", status |-> 500, error |-> "No document to update"], doc |-> doc]
    ELSE [answer |-> [op |-> "disconnect", status |-> 200, error |-> ""],
          doc |-> [doc EXCEPT !.connected = FALSE]]

\* sync up to its delay: the configuration is read and checked
syncRead(doc) ==
    IF ~dbAvailable
    THEN [answer |-> [op |-> "sync", status |-> 500, error |-> "Database not available"], call |-> [pc |-> "idle"]]
    ELSE IF ~doc.exists \/ ~doc.connected
    THEN [answer |-> [op |-> "sync", status |-> 400, error |-> "POS not connected"], call |-> [pc |-> "idle"]]
    ELSE [answer |-> NoPosAnswer, call |-> [pc |-> "delay", config |-> doc]]

\* sync after its delay: update({lastSync, autoUpdates}) from the
\* configuration read before the delay
syncWrite(config, doc, now, increment) ==
    [doc EXCEPT !.lastSync = now, !.autoUpdates = config.autoUpdates + increment]

InitPos ==
    /\ InitIdleClassifier
    /\ InitIdleAlerts
    /\ InitIdleApi
    /\ InitIdleClient
    /\ InitIdleService

PosSaveConfig ==
    \E body \in PosBodies :
        /\ posClock < MaxPosClock
        /\ posDoc' = saveConfig(body, posDoc, posClock).doc
        /\ posAnswer' = saveConfig(body, posDoc, posClock).answer
        /\ posTally' = IF posAnswer'.status = 200 THEN [posTally EXCEPT !.saves = @ + 1] ELSE posTally
        /\ posClock' = posClock + 1
        /\ UNCHANGED <<posCalls, exceptPosApi>>

PosDisconnect ==
    /\ posDoc' = disconnect(posDoc).doc
    /\ posAnswer' = disconnect(posDoc).answer
    /\ UNCHANGED <<posCalls, posTally, posClock, exceptPosApi>>

\* POST /api/pos/sync runs up to its simulated delay
PosSyncRead ==
    \E c \in 1..MaxPosCalls :
        /\ posCalls[c].pc = "idle"
        /\ posCalls' = [posCalls EXCEPT ![c] = syncRead(posDoc).call]
        /\ posAnswer' = IF syncRead(posDoc).call.pc = "idle" THEN syncRead(posDoc).answer ELSE posAnswer
        /\ UNCHANGED <<posDoc, posTally, posClock, exceptPosApi>>

\* the delay of a sync is over: it writes and answers
PosSyncWrite ==
    \E c \in 1..MaxPosCalls, increment \in SyncIncrements :
        /\ posCalls[c].pc = "delay"
        /\ posClock < MaxPosClock
        /\ posDoc' = syncWrite(posCalls[c].config, posDoc, posClock, increment)
        /\ posCalls' = [posCalls EXCEPT ![c] = [pc |-> "idle"]]
        /\ posAnswer' = [op |-> "sync", status |-> 200, error |-> ""]
        /\ posTally' = [posTally EXCEPT !.syncs = @ + 1]
        /\ posClock' = posClock + 1
        /\ UNCHANGED exceptPosApi

NextPos ==
    \/ PosSaveConfig
    \/ PosDisconnect
    \/ PosSyncRead
    \/ PosSyncWrite

SpecPos == InitPos /\ [][NextPos]_vars

\* ------------------------------------------------------------------------
\* The CSV exports of the alerts; a text is the sequence of its characters,
\* a value without a quote, comma or line break standing as one element
\* ------------------------------------------------------------------------
DQUOTE == "DQUOTE"
COMMA == "COMMA"
NEWLINE == "NEWLINE"

\* what the other sections leave alone while an export runs
exceptCsv == <<classifierVars, inventory, apiVars, clientVars, httpVars, syncVars, displayVars, chatVars, listVars,
               posApiVars, registerVars, liveVars>>

\* parts.join(separator) of texts
RECURSIVE Join(_, _)
Join(parts, separator) ==
    IF parts = <<>>
    THEN <<>>
    ELSE IF Len(parts) = 1
         THEN parts[1]
         ELSE parts[1] \o <<separator>> \o Join(Tail(parts), separator)

\* `"${text}"`
Quoted(text) == <<DQUOTE>> \o text \o <<DQUOTE>>

\* status.toUpperCase()
toUpperCase(status) ==
    CASE status = URGENT -> "URGENT"
      [] status = NORMAL -> "NORMAL"
      [] status = INFO   -> "INFO"
      [] OTHER           -> status

\* the row exportAlertsAsCSV writes for an alert
clientCsvRow(alert) ==
    Join(<<Quoted(alert.product.name),
           <<alert.product.category>>,
           <<ToString(alert.product.stock)>>,
           <<ToString(alert.threshold)>>,
           <<alert.priority>>,
           <<toUpperCase(alert.status)>>,
           Quoted(<<alert.message>>),
           <<ToString(alert.daysUntilEmpty)>>,
           <<ToString(alert.suggestedQuantity)>>
         >>, COMMA)

clientCsvHeaders ==
    <<"Product", "Category", "Current Stock", "Threshold", "Priority", "Status", "Message", "Days Until Empty",
      "Suggested Quantity">>

\* exportAlertsAsCSV(): [headers.join(','), ...rows].join('\n')
exportAlertsAsCSV(alertList) ==
    Join(<<Join([i \in 1..Len(clientCsvHeaders) |-> <<clientCsvHeaders[i]>>], COMMA)>>
         \o [i \in 1..Len(alertList) |-> clientCsvRow(alertList[i])], NEWLINE)

backendCsvHeaders ==
    <<"Product", "Category", "Current Stock", "Threshold", "Priority", "Status", "Message", "Days Until Empty">>

\* the line exportAlerts appends for a document that needs attention
backendCsvLine(item) ==
    LET stockStatus == calculateStockStatus(item)
        config == getProductPriority(item)
    IN  Join(<<Quoted(item.name),
               <<item.category>>,
               <<ToString(item.stock)>>,
               <<ToString(config.threshold)>>,
               <<config.priority>>,
               <<stockStatus.status>>,
               Quoted(<<stockStatus.message>>),
               <<ToString(estimateDaysUntilEmpty(item))>>
             >>, COMMA) \o <<NEWLINE>>

RECURSIVE backendCsvLines(_)
backendCsvLines(docs) ==
    IF docs = <<>>
    THEN <<>>
    ELSE (IF NeedsAttention(calculateStockStatus(Head(docs)).status) THEN backendCsvLine(Head(docs)) ELSE <<>>)
         \o backendCsvLines(Tail(docs))

\* exportAlerts: GET /api/alerts/export, the database being available
exportAlerts(docs) ==
    Join([i \in 1..Len(backendCsvHeaders) |-> <<backendCsvHeaders[i]>>], COMMA) \o <<NEWLINE>>
    \o backendCsvLines(docs)

NameCharacters == {"a", DQUOTE, COMMA}

CsvNames == UNION {[1..n -> NameCharacters] : n \in 0..MaxNameLen}

CsvItemInputs ==
    [name : CsvNames, category : {"Spirits"}, stock : {0}, priority : {""}, alertThreshold : {0}]

CsvItemLists ==
    {WithIds(docs) : docs \in UNION {[1..n -> CsvItemInputs] : n \in 0..MaxCsvItems}}

InitCsv ==
    /\ items \in CsvItemLists
    /\ alerts = generateAlertsOf(items)
    /\ generated = TRUE
    /\ InitIdleClassifier
    /\ InitIdleApi
    /\ InitIdleClient
    /\ InitIdleService

\* the client exports alertState.alerts
ExportAlertsAsCSV ==
    /\ csv' = [by |-> "exportAlertsAsCSV", content |-> exportAlertsAsCSV(alerts)]
    /\ UNCHANGED <<alertVars, exceptCsv>>

\* the backend exports the documents of the collection
ExportAlerts ==
    /\ csv' = [by |-> "exportAlerts", content |-> exportAlerts(items)]
    /\ UNCHANGED <<alertVars, exceptCsv>>

NextCsv ==
    \/ ExportAlertsAsCSV
    \/ ExportAlerts

SpecCsv == InitCsv /\ [][NextCsv]_vars

\* ------------------------------------------------------------------------
\* Concurrent stock adjustments: PATCH /api/inventory/:id/stock requests
\* served side by side
\* ------------------------------------------------------------------------
InitStock ==
    /\ inventory = InitialInventory
    /\ dbAvailable = TRUE
    /\ reqs = [s \in Slots |-> Idle]
    /\ InitIdleClassifier
    /\ InitIdleAlerts
    /\ InitIdleClient
    /\ InitIdleService

\* adjustments by one or two units, in either direction
AdjustBodies == [hasQuantity : {TRUE}, quantity : {1, 2}, action : {"add", "subtract"}]

\* a stock adjustment arrives and runs to its response or to its await of
\* docRef.update
StockCall ==
    \E slot \in Slots, authorization \in ApiAuthorizations, id \in SeededIds, body \in AdjustBodies :
        ApiRequest(slot, "PATCH", authorization, id, body)

\* the update of a waiting adjustment reaches the store
StockStore == \E slot \in Slots : ApiWrite(slot)

NextStock == StockCall \/ StockStore

SpecStock == InitStock /\ [][NextStock]_vars

\* ------------------------------------------------------------------------
\* The classifiers applied to items with and without a stock field
\* ------------------------------------------------------------------------
StockFieldInputs ==
    [id : {1}, name : {"Gin"}, category : {"Spirits", "Soft Drinks", "Other"}, stock : 0..MaxFieldStock,
     priority : {""} \cup PRIORITY_LEVELS, alertThreshold : {0, 1}]
    \cup [id : {1}, name : {"Gin"}, category : {"Spirits", "Soft Drinks", "Other"},
          priority : {""} \cup PRIORITY_LEVELS, alertThreshold : {0, 1}]

InitStockField ==
    /\ product \in StockFieldInputs
    /\ stockInfo = NoStatus
    /\ priorityConfig = NoConfig
    /\ estimate = NoEstimate
    /\ InitIdleAlerts
    /\ InitIdleApi
    /\ InitIdleClient
    /\ InitIdleService

\* a backend controller classifies the item
BackendClassify ==
    /\ stockInfo' = backendCalculateStockStatus(product)
    /\ UNCHANGED <<product, priorityConfig, estimate, alertVars, inventory, apiVars, clientVars, serviceVars>>

NextStockField == Classify \/ BackendClassify

SpecStockField == InitStockField /\ [][NextStockField]_vars

\* ------------------------------------------------------------------------
\* backend auth controller: the public endpoints register and login
\* ------------------------------------------------------------------------
exceptRegister == <<earlyVars, posApiVars, csvVars, liveVars>>

\* DEMO_USERS
DEMO_USERS ==
    [email \in {"admin@inventory.com", "manager@inventory.com", "staff@inventory.com"} |->
        CASE email = "admin@inventory.com"   -> [password |-> "admin123.", role |-> "admin"]
          [] email = "manager@inventory.com" -> [password |-> "manager123.", role |-> "manager"]
          [] email = "staff@inventory.com"   -> [password |-> "staff123.", role |-> "staff"]]

\* generateToken(email, role): a signed token whose payload carries the role
generateToken(email, role) == [kind |-> "valid", role |-> role]

\* bcrypt.hash(password, 10) and bcrypt.compare(password, hash)
bcryptHash(password) == [bcrypt |-> password]

bcryptCompare(password, hash) == hash = bcryptHash(password)

\* password.length < 6
TooShort(password) == password \in {"", "abc"}

\* the documents of users with the e-mail address
UsersWithEmail(userDocs, email) == {i \in 1..Len(userDocs) : userDocs[i].email = email}

\* register: POST /api/auth/register; role = USER_ROLES.STAFF is the default
\* of a body without a role
register(body, userDocs) ==
    LET role == IF "role" \in DOMAIN body THEN body.role ELSE "staff"
    IN  IF body.email = "" \/ body.password = ""
        THEN [answer |-> [op |-> "register", status |-> 400, error |-> "Email and password are required"],
              users |-> userDocs, token |-> NoToken]
        ELSE IF TooShort(body.password)
        THEN [answer |-> [op |-> "register", status |-> 400, error |-> "Password must be at least 6 characters"],
              users |-> userDocs, token |-> NoToken]
        ELSE IF ~dbAvailable
        THEN [answer |-> [op |-> "register", status |-> 500, error |-> "Database not available"],
              users |-> userDocs, token |-> NoToken]
        ELSE IF UsersWithEmail(userDocs, body.email) # {}
        THEN [answer |-> [op |-> "register", status |-> 400, error |-> "Email already registered"],
              users |-> userDocs, token |-> NoToken]
        ELSE [answer |-> [op |-> "register", status |-> 201, error |-> ""],
              users |-> Append(userDocs, [email |-> body.email, password |-> bcryptHash(body.password),
                                          role |-> role]),
              token |-> generateToken(body.email, role)]

\* login: POST /api/auth/login
login(body, userDocs) ==
    IF body.email = "" \/ body.password = ""
    THEN [answer |-> [op |-> "login", status |-> 400, error |-> "Email and password are required"],
          token |-> NoToken]
    ELSE IF body.email \in DOMAIN DEMO_USERS /\ body.password = DEMO_USERS[body.email].password
    THEN [answer |-> [op |-> "login", status |-> 200, error |-> ""],
          token |-> generateToken(body.email, DEMO_USERS[body.email].role)]
    ELSE LET found == UsersWithEmail(userDocs, body.email)
             first == CHOOSE i \in found : \A j \in found : i <= j
         IN  IF dbAvailable /\ found # {} /\ bcryptCompare(body.password, userDocs[first].password)
             THEN [answer |-> [op |-> "login", status |-> 200, error |-> ""],
                   token |-> generateToken(body.email, userDocs[first].role)]
             ELSE [answer |-> [op |-> "login", status |-> 401, error |-> "Invalid email or password"],
                   token |-> NoToken]

\* what a caller who holds no manager or admin credentials can send
CallerEmails == {"", "new@bar.com", "staff@inventory.com", "admin@inventory.com"}

CallerPasswords == {"", "abc", "secret1", "staff123."}

RegisterBodies ==
    [email : CallerEmails, password : CallerPasswords]
    \cup [email : CallerEmails, password : CallerPasswords, role : USER_ROLES]

LoginBodies == [email : CallerEmails, password : CallerPasswords]

InitRegister ==
    /\ InitIdleClassifier
    /\ InitIdleAlerts
    /\ InitIdleApi
    /\ InitIdleClient
    /\ InitIdleService

Register ==
    \E body \in RegisterBodies :
        /\ Len(users) < MaxUsers
        /\ users' = register(body, users).users
        /\ authAnswer' = register(body, users).answer
        /\ tokens' = IF register(body, users).token # NoToken THEN tokens \cup {register(body, users).token} ELSE tokens
        /\ UNCHANGED exceptRegister

Login ==
    \E body \in LoginBodies :
        /\ authAnswer' = login(body, users).answer
        /\ tokens' = IF login(body, users).token # NoToken THEN tokens \cup {login(body, users).token} ELSE tokens
        /\ UNCHANGED <<users, exceptRegister>>

NextRegister == Register \/ Login

SpecRegister == InitRegister /\ [][NextRegister]_vars

\* ------------------------------------------------------------------------
\* The client's live subscription and its filtered item list, in the
\* modular application (src/app.js with modules/inventory.js) and in the
\* single-file application (js/app.js)
\* ------------------------------------------------------------------------
exceptLive == <<classifierVars, apiVars, listening, posVars, lastOp, httpVars, syncVars, displayVars, chatVars,
                listVars, posApiVars, csvVars, registerVars>>

Apps == {"modules", "legacy"}

LiveFilters == [search : {"", "rum"}, category : {""}, status : {"", URGENT}]

LiveStocks == 0..MaxLiveStock

\* setupRealtimeListener of modules/inventory.js: nothing without a user;
\* otherwise the listener held in inventoryState.unsubscribe is removed and a
\* new one is registered and kept there
setupRealtimeListener(sub, user) ==
    IF user = ""
    THEN sub
    ELSE [sub EXCEPT !.active = (IF sub.unsubscribe THEN sub.active - 1 ELSE sub.active) + 1,
                     !.unsubscribe = TRUE]

\* setupRealtimeListener of js/app.js: nothing without a user; otherwise a
\* listener is registered and what onSnapshot returns is dropped
legacySetupRealtimeListener(sub, user) ==
    IF user = "" THEN sub ELSE [sub EXCEPT !.active = sub.active + 1]

\* cleanup() of modules/inventory.js, which no caller invokes
cleanup(sub) == [sub EXCEPT !.active = IF sub.unsubscribe THEN sub.active - 1 ELSE sub.active,
                            !.unsubscribe = FALSE]

\* applyFilters() of js/app.js: filteredData = inventoryData.filter(...)
legacyApplyFilters(inventoryData, filters) == FilterItems(inventoryData, filters)

\* the filtered list after loadInventoryData replaced the item list
filteredAfterLoad(app, itemList, filtered, filters) ==
    IF app = "modules" THEN itemList ELSE legacyApplyFilters(itemList, filters)

\* the filtered list after the onSnapshot callback replaced the item list:
\* the callback of modules/inventory.js leaves inventoryState.filteredItems
\* alone, the callback of js/app.js ends with applyFilters()
filteredAfterSnapshot(app, itemList, filtered, filters) ==
    IF app = "modules" THEN filtered ELSE legacyApplyFilters(itemList, filters)

InitLive ==
    /\ inventory = InitialInventory
    /\ dbAvailable = TRUE
    /\ reqs = [s \in Slots |-> Idle]
    /\ InitIdleClient
    /\ InitIdleAlerts
    /\ InitIdleClassifier
    /\ InitIdleHttp
    /\ InitIdleSync
    /\ InitIdleDisplay
    /\ InitIdleChat
    /\ InitIdleList
    /\ InitIdlePosApi
    /\ InitIdleCsv
    /\ InitIdleRegister
    /\ filteredItems = <<>>
    /\ filterInputs = NoFilters
    /\ subscription \in {[NoSubscription EXCEPT !.app = app] : app \in Apps}
    /\ refreshedBy = ""

\* Firebase reports a sign-in: handleAuthSuccess starts loadInventoryData and
\* awaits it; the onAuthStateChanged callback of js/app.js starts it and
\* goes on to setupRealtimeListener at once
LiveSignIn ==
    \E user \in ClientEmails :
        /\ user # authState.currentUser
        /\ subscription.app = "legacy" => subscription.active < MaxSubscriptions
        /\ authState' = onAuthStateChanged(authState, user)
        /\ loadPending' = TRUE
        /\ subscription' = IF subscription.app = "legacy"
                           THEN legacySetupRealtimeListener(subscription, user)
                           ELSE subscription
        /\ UNCHANGED <<alertVars, inventory, filteredItems, filterInputs, refreshedBy, exceptLive>>

\* Firebase reports a sign-out: handleAuthFailure, and the else branch of
\* the callback of js/app.js, show the login screen
LiveSignOut ==
    /\ authState.currentUser # ""
    /\ authState' = onAuthStateChanged(authState, "")
    /\ UNCHANGED <<loadPending, alertVars, inventory, liveVars, exceptLive>>

\* loadInventoryData resumes with the documents of the collection; then
\* handleAuthSuccess goes on to setupRealtimeListener
LiveLoadResolved ==
    /\ loadPending
    /\ loadPending' = FALSE
    /\ items' = replaceItems(items, Snapshot(inventory))
    /\ alerts' = InventoryChanged(items', alerts)
    /\ generated' = TRUE
    /\ filteredItems' = filteredAfterLoad(subscription.app, items', filteredItems, filterInputs)
    /\ refreshedBy' = "load"
    /\ subscription' = IF subscription.app = "modules"
                       THEN setupRealtimeListener(subscription, authState.currentUser)
                       ELSE subscription
    /\ UNCHANGED <<authState, inventory, filterInputs, exceptLive>>

\* another client writes the stock of a document
StoreChanged ==
    \E id \in DOMAIN inventory, stock \in LiveStocks :
        /\ stock # inventory[id].stock
        /\ inventory' = UpdateDoc(inventory, id, [stock |-> stock])
        /\ UNCHANGED <<authState, loadPending, alertVars, liveVars, exceptLive>>

\* an active listener's onSnapshot callback runs with the collection
LiveSnapshot ==
    /\ subscription.active > 0
    /\ items' = replaceItems(items, Snapshot(inventory))
    /\ alerts' = InventoryChanged(items', alerts)
    /\ generated' = TRUE
    /\ filteredItems' = filteredAfterSnapshot(subscription.app, items', filteredItems, filterInputs)
    /\ refreshedBy' = "snapshot"
    /\ UNCHANGED <<authState, loadPending, inventory, filterInputs, subscription, exceptLive>>

\* the user changes an input of the filter bar: handleFilterChange, and
\* applyFilters of js/app.js
LiveFilterChange ==
    \E filters \in LiveFilters :
        /\ filters # filterInputs
        /\ filterInputs' = filters
        /\ filteredItems' = IF subscription.app = "modules"
                            THEN applyFilters(items, filters)
                            ELSE legacyApplyFilters(items, filters)
        /\ refreshedBy' = "filter"
        /\ UNCHANGED <<authState, loadPending, alertVars, inventory, subscription, exceptLive>>

NextLive ==
    \/ LiveSignIn
    \/ LiveSignOut
    \/ LiveLoadResolved
    \/ StoreChanged
    \/ LiveSnapshot
    \/ LiveFilterChange

SpecLive == InitLive /\ [][NextLive]_vars

\* ------------------------------------------------------------------------
\* Claims
\* ------------------------------------------------------------------------

\* the decision table of the stock classifier
DecisionTable(stock, threshold, priority) ==
    IF stock <= threshold
    THEN CASE priority = "high" -> URGENT
           [] priority = "medium" -> NORMAL
           [] priority = "low" -> INFO
    ELSE IF stock <= 2 * threshold THEN GOOD ELSE OPTIMAL

\* C3: the status returned for an item is the decision-table entry of its
\* stock, resolved threshold and resolved priority (high, medium or low).
C3_StatusIsDecisionTable ==
    stockInfo # NoStatus =>
        LET config == getProductPriority(product)
        IN  (product.stock > config.threshold \/ config.priority \in PRIORITY_LEVELS)
                => stockInfo.status =
                       DecisionTable(product.stock, config.threshold, config.priority)

\* an item at its threshold with a category-default priority was classified
C3_Witness ==
    /\ stockInfo # NoStatus
    /\ product.priority = ""
    /\ product.category = "Soft Drinks"
    /\ product.alertThreshold = 2
    /\ product.stock = 2
    /\ stockInfo.status = INFO

\* the alerts whose product is the item
AlertsFor(item) == {i \in 1..Len(alerts) : alerts[i].product = item}

\* C4: after generateAlerts the list holds exactly one alert for every item
\* classified URGENT, NORMAL or INFO, none for an item classified GOOD or
\* OPTIMAL, and no alert for anything that is not an item.
C4_AlertsExactlyAttentionItems ==
    generated =>
        /\ \A k \in 1..Len(items) :
              Cardinality(AlertsFor(items[k])) =
                  IF calculateStockStatus(items[k]).status \in {URGENT, NORMAL, INFO}
                  THEN 1 ELSE 0
        /\ \A i \in 1..Len(alerts) :
              /\ \E k \in 1..Len(items) : alerts[i].product = items[k]
              /\ alerts[i].status = calculateStockStatus(alerts[i].product).status

\* a mixed list: an INFO item, a GOOD item and an URGENT item
C4_Witness ==
    /\ generated
    /\ Len(items) = 3
    /\ calculateStockStatus(items[1]).status = INFO
    /\ calculateStockStatus(items[2]).status = GOOD
    /\ calculateStockStatus(items[3]).status = URGENT
    /\ Len(alerts) = 2

\* urgency of an alert status, most urgent highest
UrgencyRank(status) ==
    CASE status = URGENT -> 3
      [] status = NORMAL -> 2
      [] status = INFO -> 1
      [] OTHER -> 0

\* C5: in the generated list no alert comes before an alert of strictly
\* higher urgency.
C5_AlertsSortedByUrgency ==
    generated =>
        \A i, j \in 1..Len(alerts) :
            i < j => UrgencyRank(alerts[i].status) >= UrgencyRank(alerts[j].status)

\* items arrive in the order INFO, NORMAL, URGENT and leave as URGENT,
\* NORMAL, INFO
C5_Witness ==
    /\ generated
    /\ Len(items) = 3
    /\ calculateStockStatus(items[1]).status = INFO
    /\ calculateStockStatus(items[2]).status = NORMAL
    /\ calculateStockStatus(items[3]).status = URGENT
    /\ Len(alerts) = 3
    /\ alerts[1].product = items[3]
    /\ alerts[3].product = items[1]

\* C1: every stored inventory item has stock >= 0 in every reachable state.
C1_StockNeverNegative ==
    \A id \in DOMAIN inventory : inventory[id].stock >= 0

\* the request slot s took a step and now holds a request
Stepped(s) == reqs'[s] # reqs[s] /\ reqs'[s] # Idle

\* the request slot s received a request in this step
Arrived(s) == reqs[s] = Idle /\ reqs'[s] # Idle

\* the status the claim gives a failing stock-delta request, 0 when the
\* request is none of the failing kinds
FailingStockDeltaStatus(body, id, inv) ==
    IF ~body.hasQuantity \/ body.action = ""
    THEN 400
    ELSE IF id \notin DOMAIN inv
         THEN 404
         ELSE IF body.action \notin {"add", "subtract"}
              THEN 400
              ELSE IF body.action = "subtract" /\ body.quantity > inv[id].stock
                   THEN 400
                   ELSE 0

\* C2: a stock-delta request that subtracts more than the current stock,
\* lacks quantity or action, names another action or an unknown id is
\* answered 400 (404 for the unknown id), and no step of a stock-delta
\* request that ends in an error changes the store.
C2_FailedStockDeltaWritesNothing ==
    [][\A s \in Slots :
          (Stepped(s) /\ reqs'[s].route = "PATCH" /\ reqs'[s].handlerRan /\ dbAvailable) =>
              /\ (Arrived(s) /\
                  FailingStockDeltaStatus(reqs'[s].body, reqs'[s].id, inventory) # 0)
                    => /\ reqs'[s].pc = "done"
                       /\ reqs'[s].status =
                            FailingStockDeltaStatus(reqs'[s].body, reqs'[s].id, inventory)
              /\ (reqs'[s].pc = "done" /\ reqs'[s].status >= 400)
                    => inventory' = inventory]_vars

\* subtracting 3 from an item that holds less was refused
C2_Witness ==
    \E s \in Slots :
        /\ reqs[s].pc = "done"
        /\ reqs[s].route = "PATCH"
        /\ reqs[s].body.action = "subtract"
        /\ reqs[s].body.quantity = 3
        /\ reqs[s].status = 400
        /\ reqs[s].id \in DOMAIN inventory
        /\ inventory[reqs[s].id].stock \in 0..2

\* the role of the signed-in user by the static table of e-mail addresses
RoleOfEmail(email) ==
    CASE email = "admin@inventory.com" -> "admin"
      [] email = "manager@inventory.com" -> "manager"
      [] OTHER -> "staff"

\* C6: canModifyStock holds exactly when a user is signed in,
\* canManageProducts exactly when the signed-in user is a manager or an
\* admin, canManagePriorities exactly when the signed-in user is an admin.
C6_PermissionPredicates ==
    LET signedIn == authState.currentUser # ""
        role == RoleOfEmail(authState.currentUser)
    IN  /\ canModifyStock(authState) <=> signedIn
        /\ canManageProducts(authState) <=> (signedIn /\ role \in {"manager", "admin"})
        /\ canManagePriorities(authState) <=> (signedIn /\ role = "admin")

\* nobody is signed in, after somebody was: handleAuthSuccess still waits
C6_Witness ==
    /\ authState.currentUser = ""
    /\ loadPending

\* C7: a request with a staff token to POST, PUT or DELETE is answered 403
\* without its handler running or the store changing; with a manager or
\* admin token it passes the role gate and its handler runs.
C7_StaffCannotManageItems ==
    [][\A s \in Slots :
          (Arrived(s) /\ reqs'[s].route \in {"POST", "PUT", "DELETE"}
                      /\ reqs'[s].authorization.kind = "bearer"
                      /\ reqs'[s].authorization.token.kind = "valid") =>
              LET role == reqs'[s].authorization.token.role
              IN  /\ role = "staff" =>
                        /\ reqs'[s].pc = "done"
                        /\ reqs'[s].status = 403
                        /\ ~reqs'[s].handlerRan
                        /\ inventory' = inventory
                  /\ role \in {"manager", "admin"} =>
                        /\ reqs'[s].handlerRan
                        /\ reqs'[s].status # 403]_vars

\* a staff token was refused the update of an existing item
C7_Witness ==
    \E s \in Slots :
        /\ reqs[s].pc = "done"
        /\ reqs[s].route = "PUT"
        /\ reqs[s].authorization.token = [kind |-> "valid", role |-> "staff"]
        /\ reqs[s].status = 403
        /\ reqs[s].id \in DOMAIN inventory

\* the priority or the alert threshold of a stored item changes in this step
PriorityChanged ==
    \E id \in DOMAIN inventory \cap DOMAIN inventory' :
        \/ inventory'[id].priority # inventory[id].priority
        \/ inventory'[id].alertThreshold # inventory[id].alertThreshold

\* C8: only an admin changes an item's priority or alert threshold: a step
\* of an API request or of the client that changes either is made with the
\* role admin, and a PUT of either field by a manager or staff is answered
\* with an error status.
C8_OnlyAdminManagesPriorities ==
    [][/\ PriorityChanged =>
            IF reqs' # reqs
            THEN \A s \in Slots : Stepped(s) => reqs'[s].user.role = "admin"
            ELSE authState.currentUser # "" /\ authState.userRole = "admin"
       /\ \A s \in Slots :
            (Arrived(s) /\ reqs'[s].route = "PUT"
                        /\ reqs'[s].user.role \in {"manager", "staff"}
                        /\ DOMAIN reqs'[s].body \cap {"priority", "alertThreshold"} # {})
                => reqs'[s].pc = "done" /\ reqs'[s].status >= 400]_vars

\* the permission predicate of a mutating client operation
RequiredPermission(op, auth) ==
    CASE op = "quickUpdate" -> canModifyStock(auth)
      [] op = "quickRestock" -> canModifyStock(auth)
      [] op = "updateProductPriority" -> canManagePriorities(auth)
      [] op = "savePOSConfig" -> canManageProducts(auth)

\* the client made a step of one of its mutating operations
ClientOpStep ==
    /\ lastOp'.op \in {"quickUpdate", "quickRestock", "updateProductPriority", "savePOSConfig"}
    /\ UNCHANGED <<sessionVars, alertVars, apiVars>>
    /\ <<lastOp, inventory, posConfig>>' # <<lastOp, inventory, posConfig>>

\* C9: a mutating client operation whose permission predicate is false
\* ends with the permission error, writes nothing and raises no exception.
C9_ClientOpsGated ==
    [][(ClientOpStep /\ ~RequiredPermission(lastOp'.op, authState)) =>
          /\ lastOp'.notice \in {PermissionDenied, AdminRequired, ManagerRequired}
          /\ ~lastOp'.wrote
          /\ ~lastOp'.threw
          /\ inventory' = inventory
          /\ posConfig' = posConfig]_vars

\* C10: verifyToken answers 401 without calling next unless the header is
\* 'Bearer ' followed by a valid unexpired token; for that token it calls
\* next once with req.user set to the decoded payload.
C10_VerifyToken ==
    \A s \in Slots :
        reqs[s] # Idle =>
            LET a == reqs[s].authorization
            IN  IF a.kind = "bearer" /\ a.token.kind = "valid"
                THEN /\ reqs[s].verifyNext = 1
                     /\ reqs[s].user = [role |-> a.token.role]
                     /\ reqs[s].status # 401
                ELSE /\ reqs[s].verifyNext = 0
                     /\ reqs[s].status = 401
                     /\ reqs[s].pc = "done"
                     /\ ~reqs[s].handlerRan
                     /\ reqs[s].user = NoUser

\* an expired token of an admin was answered 401
C10_Witness ==
    \E s \in Slots :
        /\ reqs[s] # Idle
        /\ reqs[s].authorization.token = [kind |-> "expired", role |-> "admin"]
        /\ reqs[s].status = 401
        /\ reqs[s].error = "Token expired"

\* C11: every error response of an HTTP endpoint has a body whose success
\* is false and whose error is a message.
C11_UniformErrorBody ==
    httpResponse.status >= 400 =>
        /\ "success" \in DOMAIN httpResponse.body
        /\ httpResponse.body.success = FALSE
        /\ "error" \in DOMAIN httpResponse.body

\* the request reached the call of the completion endpoint
ReachedUpstream(req) ==
    /\ req.endpoint \in {"chat", "aiChat"}
    /\ req.method = "POST"
    /\ req.message # ""
    /\ req.apiKey
    /\ req.endpoint = "chat" => verifyToken(req.authorization).status = 0

\* C19: when the completion endpoint is unreachable or answers with a
\* non-success status, the chat endpoint answers 500 with an error message
\* after a single upstream call.
C19_UpstreamFailureIs500 ==
    (httpRequest # NoRequest /\ ReachedUpstream(httpRequest)
                             /\ httpRequest.upstream.kind # "ok") =>
        /\ httpResponse.status = 500
        /\ "error" \in DOMAIN httpResponse.body
        /\ upstreamCalls = 1

\* C12: once a load or live-update callback has run, the alert list is the
\* one derived from the current item list: every alert is for a current
\* item in its current state, and every current item that needs attention
\* has its alert.
C12_AlertsFollowItems ==
    /\ ~generated => alerts = <<>>
    /\ generated =>
          /\ \A i \in 1..Len(alerts) :
                \E k \in 1..Len(items) :
                    /\ alerts[i].product = items[k]
                    /\ alerts[i].status = calculateStockStatus(items[k]).status
          /\ \A k \in 1..Len(items) :
                calculateStockStatus(items[k]).status \in {URGENT, NORMAL, INFO}
                    <=> \E i \in 1..Len(alerts) : alerts[i].product = items[k]
          /\ Len(alerts) <= Len(items)

\* a callback delivered the item after its stock had gone from 1 to 0, and
\* the only alert is the one for stock 0
C12_Witness ==
    /\ generated
    /\ Len(items) = 1
    /\ items[1].stock = 0
    /\ Len(alerts) = 1
    /\ alerts[1].product.stock = 0

\* C13: the callback of a load leaves the item list equal to what getDocs
\* read for it, the callback of a live update leaves it equal to the
\* snapshot delivered, whatever the list held before; nothing else changes
\* the list.
C13_LastCallbackWins ==
    [][/\ (loadResult # <<>> /\ loadResult' = <<>>) => items' = loadResult[1]
       /\ (notifications # <<>> /\ notifications' = Tail(notifications))
             => items' = Head(notifications)
       /\ items' # items =>
             \/ loadResult # <<>> /\ loadResult' = <<>>
             \/ notifications # <<>> /\ notifications' = Tail(notifications)]_vars

\* the last callback delivered a set the store has since left behind, and
\* nothing is in flight
C13_Witness ==
    /\ items # <<>>
    /\ items # Snapshot(inventory)
    /\ loadResult = <<>>
    /\ notifications = <<>>
    /\ listening

\* the default of a category, medium and 3 for an unknown or missing one
ExpectedDefault(item) ==
    IF "category" \in DOMAIN item /\ item.category \in DOMAIN DEFAULT_PRIORITIES
    THEN DEFAULT_PRIORITIES[item.category]
    ELSE [priority |-> "medium", threshold |-> 3]

\* C14: the resolved priority is the item's own priority when the item has
\* one, else the default of its category; the resolved threshold is the
\* item's own alertThreshold when the item has one, else the default of its
\* category; the defaults are medium and 3 for an unknown or missing
\* category.
C14_PriorityResolvedFieldByField ==
    priorityConfig # NoConfig =>
        /\ priorityConfig.priority = IF "priority" \in DOMAIN product
                             THEN product.priority
                             ELSE ExpectedDefault(product).priority
        /\ priorityConfig.threshold = IF "alertThreshold" \in DOMAIN product
                              THEN product.alertThreshold
                              ELSE ExpectedDefault(product).threshold

CeilHalf(stock) ==
    CHOOSE d \in -1..MaxEstimateStock : 2 * d >= stock /\ 2 * (d - 1) < stock

\* C16: the estimated days until empty of an alert are ceil(stock / 2) when
\* that is at least 1 and 1 otherwise.
C16_DaysUntilEmptyAtLeastOne ==
    estimate # NoEstimate =>
        /\ estimate.daysUntilEmpty =
              (IF CeilHalf(product.stock) >= 1 THEN CeilHalf(product.stock) ELSE 1)
        /\ estimate.daysUntilEmpty >= 1

\* C17: the panel shows the first min(n, 6) alerts of the list in the list's
\* order, counts max(0, n - 6) hidden alerts, and getAlerts still returns all
\* n alerts, one for each item that needs attention.
C17_DisplayCappedAtSix ==
    display.drawn =>
        LET n == Len(alerts)
            shown == IF n < 6 THEN n ELSE 6
        IN  /\ Len(display.alerts) = shown
            /\ \A i \in 1..shown : display.alerts[i] = alerts[i]
            /\ display.hiddenCount = (IF n > 6 THEN n - 6 ELSE 0)
            /\ getAlerts(alerts) = generateAlertsOf(items)
            /\ Len(getAlerts(alerts)) = Len(items)

C17_Witness ==
    /\ display.drawn
    /\ Len(alerts) = 8
    /\ Len(display.alerts) = 6
    /\ display.hiddenCount = 2
    /\ display.alerts[1].status # display.alerts[6].status

\* C18: once the sendToGroq calls made so far have returned, successfully or
\* not, the conversation history holds at most 10 entries.
C18_HistoryAtMostTen ==
    aiCall.waiting = 0 => Len(conversationHistory) <= 10

\* the urgency of a status: URGENT, NORMAL, INFO, GOOD, OPTIMAL from most to
\* least urgent
Urgency(status) ==
    CASE status = URGENT  -> 5
      [] status = NORMAL  -> 4
      [] status = INFO    -> 3
      [] status = GOOD    -> 2
      [] status = OPTIMAL -> 1

InListingOrder(a, b) ==
    LET ua == Urgency(calculateStockStatus(a).status)
        ub == Urgency(calculateStockStatus(b).status)
    IN  \/ ua > ub
        \/ ua = ub /\ NameRank(a.name) <= NameRank(b.name)

\* C20: whenever the full item list has been sorted for listing or display,
\* a row that comes before another is more urgent than it, or as urgent
\* and not after it alphabetically by name.
C20_ListingSortedByUrgencyThenName ==
    (listing.by # "" /\ listing.sorted /\ listing.full) =>
        \A i, j \in 1..Len(listing.rows) :
            i < j => InListingOrder(listing.rows[i], listing.rows[j])

\* C21: after k successful syncs the persisted autoUpdates counter has grown
\* by at least k and at most 5k.
C21_AutoUpdatesGrowsWithSyncs ==
    /\ posDoc.autoUpdates >= posTally.syncs
    /\ posDoc.autoUpdates <= 5 * posTally.syncs

\* C28: no step changes lastSync or autoUpdates of the configuration and
\* leaves the POS disconnected; a sync requested while disconnected answers
\* 'POS not connected' and writes nothing.
C28_NoSyncWriteWhileDisconnected ==
    [][/\ (posDoc'.lastSync # posDoc.lastSync \/ posDoc'.autoUpdates # posDoc.autoUpdates) => posDoc'.connected
       /\ (posAnswer' # posAnswer /\ posAnswer'.op = "sync" /\ ~posDoc.connected /\ posCalls' = posCalls)
            => (posAnswer'.error = "POS not connected" /\ posDoc' = posDoc)]_vars

\* every double quote of a text doubled
RECURSIVE DoubledQuotes(_)
DoubledQuotes(text) ==
    IF text = <<>>
    THEN <<>>
    ELSE (IF Head(text) = DQUOTE THEN <<DQUOTE, DQUOTE>> ELSE <<Head(text)>>) \o DoubledQuotes(Tail(text))

\* a position of a CSV text is outside every quoted field when an even
\* number of double quotes comes before it: a quoted field runs to its closing
\* quote and a doubled quote inside it is one quote
OutsideQuotes(text, i) == Cardinality({k \in 1..(i - 1) : text[k] = DQUOTE}) % 2 = 0

\* the line breaks that end a record
RecordBreaks(text) == {i \in 1..Len(text) : text[i] = NEWLINE /\ OutsideQuotes(text, i)}

\* the positions where a record starts
RecordStarts(text) == {1} \cup {i + 1 : i \in {b \in RecordBreaks(text) : b < Len(text)}}

\* the number of fields of the record that starts at a position
FieldsFrom(text, start) ==
    LET ends == {b \in RecordBreaks(text) \cup {Len(text) + 1} : b >= start}
        end == CHOOSE e \in ends : \A other \in ends : e <= other
    IN  1 + Cardinality({i \in start..(end - 1) : text[i] = COMMA /\ OutsideQuotes(text, i)})

\* the numbers of fields of the records of a CSV text, read as standard CSV
FieldCounts(text) ==
    LET starts == RecordStarts(text)
        nth(n) == CHOOSE s \in starts : Cardinality({t \in starts : t < s}) = n - 1
    IN  [n \in 1..Cardinality(starts) |-> FieldsFrom(text, nth(n))]

\* the text of a row starts with the quoted product name, its quotes doubled
StartsWithEscapedName(text, name) ==
    LET field == Quoted(DoubledQuotes(name)) \o <<COMMA>>
    IN  /\ Len(text) >= Len(field)
        /\ SubSeq(text, 1, Len(field)) = field

\* C22: in a CSV export every row starts with the product name in double
\* quotes with each embedded double quote doubled, and every record has as
\* many fields as the header, one record for each alert.
C22_CsvNamesQuotedAndEscaped ==
    /\ csv.by = "exportAlertsAsCSV" =>
          /\ \A i \in 1..Len(alerts) : StartsWithEscapedName(clientCsvRow(alerts[i]), alerts[i].product.name)
          /\ FieldCounts(csv.content) = [i \in 1..(Len(alerts) + 1) |-> Len(clientCsvHeaders)]
    /\ csv.by = "exportAlerts" =>
          /\ \A i \in 1..Len(items) : StartsWithEscapedName(backendCsvLine(items[i]), items[i].name)
          /\ FieldCounts(csv.content) = [i \in 1..(Len(items) + 1) |-> Len(backendCsvHeaders)]

\* the adjustment a request reported as successful
ReportedAdjustment(r) ==
    IF r.pc = "done" /\ r.status = 200
    THEN IF r.body.action = "add" THEN r.body.quantity ELSE 0 - r.body.quantity
    ELSE 0

RECURSIVE SumOfAdjustments(_)
SumOfAdjustments(slots) ==
    IF slots = {}
    THEN 0
    ELSE LET s == CHOOSE x \in slots : TRUE
         IN  ReportedAdjustment(reqs[s]) + SumOfAdjustments(slots \ {s})

\* C23: once no adjustment is waiting for its write, the stored stock is the
\* initial stock plus the sum of the adjustments that reported success.
C23_NoAdjustmentLost ==
    (\A s \in Slots : reqs[s].pc # "write") =>
        \A id \in SeededIds :
            inventory[id].stock = InitialInventory[id].stock + SumOfAdjustments(Slots)

\* C24: an item whose stock is at or below its resolved threshold is
\* classified URGENT, NORMAL or INFO, whatever its stored priority holds.
C24_LowStockAlwaysNeedsAttention ==
    (stockInfo # NoStatus /\ product.stock <= getProductPriority(product).threshold)
        => stockInfo.status \in {URGENT, NORMAL, INFO}

\* C30: an item without a stock field is given, by the client's classifier
\* and by the backend's, the status of the same item with stock 0.
C30_UndefinedStockIsZero ==
    (stockInfo # NoStatus /\ "stock" \notin DOMAIN product) =>
        LET config == getProductPriority(product)
        IN  stockInfo.status = DecisionTable(0, config.threshold, config.priority)

\* C25: every account created through register has role staff, and every
\* token returned to a caller without manager or admin credentials carries
\* role staff.
C25_RegistrationGrantsStaffOnly ==
    /\ \A i \in 1..Len(users) : users[i].role = "staff"
    /\ \A token \in tokens : token.role = "staff"

\* C29: a sendToGroq call that fails, with no other call and no clearing in
\* between, leaves the conversation history exactly as it was before the call.
C29_FailedCallRestoresHistory ==
    (aiCall.outcome = "failed" /\ aiCall.undisturbed /\ aiCall.waiting = 0)
        => conversationHistory = aiCall.before

\* C26: after every inventory refresh, by a manual load or by a live-update
\* notification, every item of the filtered list is an item of the current
\* item list with the same field values.
C26_FilteredItemsAreCurrent ==
    refreshedBy \in {"load", "snapshot"}
        => \A i \in 1..Len(filteredItems) : \E j \in 1..Len(items) : items[j] = filteredItems[i]

\* C27: the client never holds more than one live subscription, holds none
\* while no user is signed in, and no live-update notification rewrites the
\* item list while no user is signed in.
C27_OneSubscriptionWhileSignedIn ==
    [][/\ subscription'.active <= 1
       /\ authState'.currentUser = "" => subscription'.active = 0
       /\ (refreshedBy' = "snapshot" /\ items' # items) => authState.currentUser # ""]_vars

====
